---- MODULE Spec2Model ----
(***************************************************************************)
(* A model of the analytics core of the iRoutine backend: the streak       *)
(* engine, the category aggregator, the insight generator, the             *)
(* cross-domain insight rules and the interruption cost model, together    *)
(* with the request handlers that feed them from the store.                *)
(*                                                                         *)
(* Conventions.  Time is counted in whole minutes since an epoch.  An ISO  *)
(* timestamp string is a record [wall, suffix]: the wall-clock minute it   *)
(* spells and its zone suffix.  Numbers the code rounds to d decimals are  *)
(* kept as integers scaled by 10^d (tenths, hundredths); the arithmetic is *)
(* exact where the code uses binary floating point.                        *)
(***************************************************************************)
EXTENDS Integers, Sequences, FiniteSets, TLC

VARIABLES
    now,            \* the server clock, datetime.utcnow(), in minutes
    activities,     \* rows of the activities table, in insertion order
    interruptions,  \* rows of the interruptions table
    energy_logs,    \* rows of the energy_logs table
    transactions,   \* rows of the transactions table
    tasks,          \* rows of the tasks table
    habits,         \* rows of the habits table
    habit_logs,     \* rows of the habit_logs table
    in_flight,      \* requests between two of their calls of the store
    response,       \* what the last call returned to its caller
    goals           \* rows of the goals table

vars == <<now, activities, interruptions, energy_logs, transactions, tasks, habits, habit_logs,
          in_flight, response, goals>>

(***************************************************************************)
(* Bounds of the model.                                                    *)
(***************************************************************************)
MaxStreakActivities == 4
MaxDay == 6
StartDay == 5
MaxClockDay == 6
MaxCategoryActivities == 4
MaxInsightActivities == 3
MaxInsightInterruptions == 1
MaxTransactions == 2
MaxRecoveryHour == 1
MaxHabits == 1
MaxHabitLogs == 2
MaxInFlight == 2
MaxEnergyLogs == 3

(***************************************************************************)
(* Temporal utilities.                                                     *)
(***************************************************************************)
MinutesPerHour == 60
HoursPerDay == 24
MaxDurationHours == 24
MinutesPerDay == HoursPerDay * MinutesPerHour
DaysPerYear == 365
DefaultDurationMinutes == 5

Max(a, b) == IF a >= b THEN a ELSE b

SetMax(S) == CHOOSE m \in S : \A x \in S : x <= m

\* The zone suffixes datetime.fromisoformat accepts, with their UTC offset
\* in minutes.  "Z" is not among them: the code rewrites it first.
ParsableSuffixes == {"+00:00", "+02:00", "-05:00"}

UtcOffset(suffix) ==
    CASE suffix = "+00:00" -> 0
      [] suffix = "+02:00" -> 2 * MinutesPerHour
      [] suffix = "-05:00" -> 0 - 5 * MinutesPerHour

\* s.replace("Z", "+00:00")
ReplaceZ(s) == IF s.suffix = "Z" THEN [s EXCEPT !.suffix = "+00:00"] ELSE s

\* Whether datetime.fromisoformat(s.replace("Z", "+00:00")) returns; it raises
\* ValueError otherwise.
Parses(s) == ReplaceZ(s).suffix \in ParsableSuffixes

\* datetime.fromisoformat(s.replace("Z", "+00:00")): an aware datetime that
\* keeps the wall-clock fields of the string and its offset.
ParseTime(s) == [wall |-> s.wall, utcoffset |-> UtcOffset(ReplaceZ(s).suffix)]

\* The instant an aware datetime denotes; what comparison and subtraction of
\* aware datetimes work on.
Instant(dt) == dt.wall - dt.utcoffset

\* Mutant: buckets by ISO week instead of by calendar day.
DateOfWeek(dt) == dt.wall \div (7 * MinutesPerDay)

\* dt.date(): the calendar date of the wall-clock fields.
DateOf(dt) == dt.wall \div MinutesPerDay

\* dt.hour
HourOf(dt) == (dt.wall % MinutesPerDay) \div MinutesPerHour

\* (end - start).total_seconds() / 60
DurationMinutes(row) == Instant(ParseTime(row.end_time)) - Instant(ParseTime(row.start_time))

\* datetime.isoformat() of a datetime pydantic parsed from the request: a "Z"
\* in the request comes out as "+00:00".
IsoFormat(s) == ReplaceZ(s)

\* datetime.utcnow().date()
Today == now \div MinutesPerDay

\* Python's round(): the integer nearest to num/den, ties to the even one
\* (den > 0, num >= 0).  A float tie is decided by the binary value of the
\* quotient; the quotients the specifications below produce tie only at
\* values a float holds exactly, where this is what round() answers.
RoundHalfEven(num, den) ==
    LET q == num \div den
        r == num % den
    IN  IF 2 * r < den THEN q
        ELSE IF 2 * r > den THEN q + 1
        ELSE IF q % 2 = 0 THEN q ELSE q + 1

\* sorted(S, reverse=True)
RECURSIVE SortedDesc(_)
SortedDesc(S) ==
    IF S = {} THEN <<>>
    ELSE LET m == SetMax(S) IN <<m>> \o SortedDesc(S \ {m})

\* The rows of a table whose time field is at or after `since`
\* (.gte(field, since) of the store's query).
FetchActivitiesSince(since) ==
    SelectSeq(activities, LAMBDA a : Instant(ParseTime(a.start_time)) >= since)

FetchInterruptionsSince(since) ==
    SelectSeq(interruptions, LAMBDA r : Instant(ParseTime(r.time)) >= since)

\* An optional field of a row or dict: the key is missing, holds None, or
\* holds a number.
Absent == [tag |-> "absent", v |-> 0]
Null == [tag |-> "null", v |-> 0]
IntVal(n) == [tag |-> "int", v |-> n]

\* A text column that holds no value.
NullStr == "null"

(***************************************************************************)
(* Streak engine.                                                          *)
(***************************************************************************)
\* Whether some timestamp of the rows does not parse.
AnyStartUnparsable(rows) == \E i \in 1..Len(rows) : ~Parses(rows[i].start_time)

\* days_with_activity: the set of calendar dates of the rows' start_time.
DaysWithActivity(rows) == {DateOf(ParseTime(rows[i].start_time)) : i \in 1..Len(rows)}

\* The current-streak loop from index i on: count while the i-th day of the
\* descending list is today - (i-1), break at the first mismatch.
RECURSIVE CurrentStreakFrom(_, _, _)
CurrentStreakFrom(sorted_days, today, i) ==
    IF i > Len(sorted_days) THEN 0
    ELSE IF sorted_days[i] = today - (i - 1)
         THEN 1 + CurrentStreakFrom(sorted_days, today, i + 1)
         ELSE 0

CurrentStreak(sorted_days, today) == CurrentStreakFrom(sorted_days, today, 1)

\* Mutant: the scan without the max() that follows the loop.
RECURSIVE LongestScanNoFinalRun(_, _, _, _)
LongestScanNoFinalRun(sorted_days, i, longest_streak, temp_streak) ==
    IF i > Len(sorted_days) THEN longest_streak
    ELSE IF sorted_days[i - 1] - sorted_days[i] = 1
         THEN LongestScanNoFinalRun(sorted_days, i + 1, longest_streak, temp_streak + 1)
         ELSE LongestScanNoFinalRun(sorted_days, i + 1, Max(longest_streak, temp_streak), 1)

\* The longest-streak loop from index i on, and the max() after it.
RECURSIVE LongestScan(_, _, _, _)
LongestScan(sorted_days, i, longest_streak, temp_streak) ==
    IF i > Len(sorted_days) THEN Max(longest_streak, temp_streak)
    ELSE IF sorted_days[i - 1] - sorted_days[i] = 1
         THEN LongestScan(sorted_days, i + 1, longest_streak, temp_streak + 1)
         ELSE LongestScan(sorted_days, i + 1, Max(longest_streak, temp_streak), 1)

\* longest_streak = 1; temp_streak = 1; the loop starts at the second entry.
LongestStreak(sorted_days) == LongestScan(sorted_days, 2, 1, 1)

\* The streak block shared by get_streaks and get_analytics_summary.
StreakResponse(rows, today) ==
    LET sorted_days == SortedDesc(DaysWithActivity(rows))
    IN  [current_streak |-> CurrentStreak(sorted_days, today),
         longest_streak |-> LongestStreak(sorted_days),
         days_with_activity |-> Cardinality(DaysWithActivity(rows))]

\* A response names the call it answers, and carries the clock reading of
\* the call, the HTTP status and the body.
NoResponse == [op |-> "none", status |-> 0, body |-> <<>>, at |-> 0]

\* raise HTTPException(status_code=...)
HttpError(op, code) == [op |-> op, status |-> code, body |-> <<>>, at |-> now]

HttpOk(op, body) == [op |-> op, status |-> 200, body |-> body, at |-> now]

\* The outcome of a direct call of a function of the core: its arguments and
\* the value it returned, or that it raised.
Returned(op, args, value) ==
    [op |-> op, status |-> 0, at |-> now,
     body |-> [args |-> args, raised |-> FALSE, value |-> value]]

Raised(op, args) ==
    [op |-> op, status |-> 0, at |-> now,
     body |-> [args |-> args, raised |-> TRUE, value |-> <<>>]]

(***************************************************************************)
(* Category aggregator.                                                    *)
(***************************************************************************)
RECURSIVE SumSeq(_)
SumSeq(s) == IF s = <<>> THEN 0 ELSE Head(s) + SumSeq(Tail(s))

\* The keys of a dict filled in the order of `keys`: each key once, in the
\* order of its first occurrence.
RECURSIVE DistinctInOrderFrom(_, _, _)
DistinctInOrderFrom(keys, i, seen) ==
    IF i > Len(keys) THEN seen
    ELSE DistinctInOrderFrom(keys, i + 1,
            IF \E j \in 1..Len(seen) : seen[j] = keys[i]
            THEN seen ELSE Append(seen, keys[i]))

DistinctInOrder(keys) == DistinctInOrderFrom(keys, 1, <<>>)

\* Whether some start_time or end_time of the rows does not parse.
AnyTimeUnparsable(rows) ==
    \E i \in 1..Len(rows) : ~Parses(rows[i].start_time) \/ ~Parses(rows[i].end_time)

\* The total of (end - start) in minutes over the rows.
TotalMinutes(rows) == SumSeq([i \in 1..Len(rows) |-> DurationMinutes(rows[i])])

RowsOfCategory(rows, category) == SelectSeq(rows, LAMBDA a : a.category = category)

\* Mutant: the percentage cut to one decimal instead of rounded.
PercentageTruncated(total_minutes, grand_total) ==
    IF grand_total > 0 THEN (1000 * total_minutes) \div grand_total ELSE 0

\* round(total / grand_total * 100, 1) if grand_total > 0 else 0, in tenths.
Percentage(total_minutes, grand_total) ==
    IF grand_total > 0 THEN RoundHalfEven(1000 * total_minutes, grand_total) ELSE 0

\* round(total / session_count, 1) if session_count > 0 else 0, in tenths.
AvgDuration(total_minutes, session_count) ==
    IF session_count > 0 THEN RoundHalfEven(10 * total_minutes, session_count) ELSE 0

\* One CategoryBreakdown record; total_minutes, avg_duration and percentage
\* are in tenths.
CategoryBreakdown(rows, category, grand_total) ==
    LET mine == RowsOfCategory(rows, category)
    IN  [category |-> category,
         total_minutes |-> 10 * TotalMinutes(mine),
         session_count |-> Len(mine),
         avg_duration |-> AvgDuration(TotalMinutes(mine), Len(mine)),
         percentage |-> Percentage(TotalMinutes(mine), grand_total)]

\* Mutant: a sort that puts x before the placed elements of the same key.
InsertByTotalDescTiesFirst(sorted, x) ==
    LET k == Cardinality({j \in 1..Len(sorted) : sorted[j].total_minutes > x.total_minutes})
    IN  SubSeq(sorted, 1, k) \o <<x>> \o SubSeq(sorted, k + 1, Len(sorted))

\* list.sort(key=total_minutes, reverse=True) one element at a time: a stable
\* sort keeps x behind the elements already placed whose key is not smaller.
InsertByTotalDesc(sorted, x) ==
    LET k == Cardinality({j \in 1..Len(sorted) : sorted[j].total_minutes >= x.total_minutes})
    IN  SubSeq(sorted, 1, k) \o <<x>> \o SubSeq(sorted, k + 1, Len(sorted))

RECURSIVE SortByTotalDescFrom(_, _, _)
SortByTotalDescFrom(list, i, sorted) ==
    IF i > Len(list) THEN sorted
    ELSE SortByTotalDescFrom(list, i + 1, InsertByTotalDesc(sorted, list[i]))

SortByTotalDesc(list) == SortByTotalDescFrom(list, 1, <<>>)

\* The category breakdown of get_category_breakdown and get_analytics_summary.
Breakdown(rows) ==
    LET keys == DistinctInOrder([i \in 1..Len(rows) |-> rows[i].category])
    IN  SortByTotalDesc([k \in 1..Len(keys) |-> CategoryBreakdown(rows, keys[k], TotalMinutes(rows))])

(***************************************************************************)
(* Insight generator (services/insights.py).                               *)
(***************************************************************************)
VALID_CATEGORIES == {"Study", "Coding", "Work", "Reading", "Rest", "Social", "Other"}

FocusCategories == {"Study", "Coding", "Work", "Reading"}

\* max(d.items(), key=lambda x: x[1])[0] over a dict whose keys were inserted
\* in the order of `keys`: the first key that carries the greatest value.
FirstMaxKey(keys, Value(_)) ==
    LET best == CHOOSE i \in 1..Len(keys) :
                   /\ \A j \in 1..Len(keys) : Value(keys[j]) <= Value(keys[i])
                   /\ \A j \in 1..(i - 1) : Value(keys[j]) < Value(keys[i])
    IN  keys[best]

\* hour_focus[h]: the focus minutes of the activities that start in hour h.
HourFocus(focus_activities, h) ==
    TotalMinutes(SelectSeq(focus_activities, LAMBDA a : HourOf(ParseTime(a.start_time)) = h))

\* Mutant: on a tie the hour met last wins.
PeakWindowLastOnTie(focus_activities) ==
    LET hours == DistinctInOrder([i \in 1..Len(focus_activities) |->
                                     HourOf(ParseTime(focus_activities[i].start_time))])
        latest == [i \in 1..Len(hours) |-> hours[Len(hours) + 1 - i]]
        peak_hour == FirstMaxKey(latest, LAMBDA h : HourFocus(focus_activities, h))
    IN  IF hours # <<>>
        THEN <<"Your focus is strongest between", peak_hour, (peak_hour + 1) % HoursPerDay>>
        ELSE <<"Your focus is strongest between", "No focus time logged yet">>

\* peak_window: the two hours of "HH:00 - HH:00", or the sentence for no focus.
PeakWindow(focus_activities) ==
    LET hours == DistinctInOrder([i \in 1..Len(focus_activities) |->
                                     HourOf(ParseTime(focus_activities[i].start_time))])
        peak_hour == FirstMaxKey(hours, LAMBDA h : HourFocus(focus_activities, h))
    IN  IF hours # <<>>
        THEN <<"Your focus is strongest between", peak_hour, (peak_hour + 1) % HoursPerDay>>
        ELSE <<"Your focus is strongest between", "No focus time logged yet">>

\* hour_interruptions[h]
HourInterruptions(rows, h) ==
    Cardinality({i \in 1..Len(rows) : HourOf(ParseTime(rows[i].time)) = h})

InterruptionHours(rows) ==
    DistinctInOrder([i \in 1..Len(rows) |-> HourOf(ParseTime(rows[i].time))])

DistractionHotspot(rows) ==
    IF InterruptionHours(rows) # <<>>
    THEN <<"Most interruptions around",
           FirstMaxKey(InterruptionHours(rows), LAMBDA h : HourInterruptions(rows, h))>>
    ELSE <<"No interruptions logged">>

\* max(hour_interruptions.values())
MaxHourInterruptions(rows) ==
    SetMax({HourInterruptions(rows, h) : h \in {HourOf(ParseTime(rows[i].time)) : i \in 1..Len(rows)}})

\* daily_focus: the focus minutes of each calendar day that has some.
FocusDays(focus_activities) ==
    {DateOf(ParseTime(focus_activities[i].start_time)) : i \in 1..Len(focus_activities)}

DailyFocus(focus_activities, day) ==
    TotalMinutes(SelectSeq(focus_activities, LAMBDA a : DateOf(ParseTime(a.start_time)) = day))

\* list(daily_focus.values())
FocusValues(focus_activities) ==
    LET days == SortedDesc(FocusDays(focus_activities))
    IN  [i \in 1..Len(days) |-> DailyFocus(focus_activities, days[i])]

\* With n days of sum S and sum of squares Q, std_dev / (avg_focus + 1) is
\* sqrt(n*Q - S*S) / (S + n).  Spread2 is the square of its numerator.
Spread2(focus_activities) ==
    LET focus_values == FocusValues(focus_activities)
        S == SumSeq(focus_values)
        Q == SumSeq([i \in 1..Len(focus_values) |-> focus_values[i] * focus_values[i]])
    IN  Len(focus_values) * Q - S * S

SpreadDen(focus_activities) ==
    SumSeq(FocusValues(focus_activities)) + Len(FocusValues(focus_activities))

\* The integer nearest to 100 * sqrt(num2) / den for 0 <= num2 < den * den,
\* a tie going to the value that leaves 100 minus it even.  The products
\* stay within 32 bits for den up to 230.
NearestPercentOfRoot(num2, den) ==
    LET lo == CHOOSE m \in 0..99 :
                 /\ m * m * den * den <= 10000 * num2
                 /\ 10000 * num2 < (m + 1) * (m + 1) * den * den
        mid == (2 * lo + 1) * (2 * lo + 1) * den * den
    IN  IF 40000 * num2 < mid THEN lo
        ELSE IF 40000 * num2 > mid THEN lo + 1
        ELSE IF lo % 2 = 0 THEN lo ELSE lo + 1

\* Mutant: 1 - std_dev / (avg_focus + 1) without the max(0, ...) around it,
\* rounded towards zero where it is negative.
ConsistencyScoreUnclamped(focus_activities) ==
    IF Cardinality(FocusDays(focus_activities)) > 1
    THEN IF Spread2(focus_activities) >= SpreadDen(focus_activities) * SpreadDen(focus_activities)
         THEN 100 - (CHOOSE m \in 100..200 :
                        /\ m * m * SpreadDen(focus_activities) * SpreadDen(focus_activities)
                              <= 10000 * Spread2(focus_activities)
                        /\ 10000 * Spread2(focus_activities)
                              < (m + 1) * (m + 1) * SpreadDen(focus_activities) * SpreadDen(focus_activities))
         ELSE 100 - NearestPercentOfRoot(Spread2(focus_activities), SpreadDen(focus_activities))
    ELSE 50

\* round(consistency_score, 2) in hundredths, where consistency_score is
\* max(0, 1 - std_dev / (avg_focus + 1)) over more than one day and 0.5 else.
ConsistencyScore(focus_activities) ==
    IF Cardinality(FocusDays(focus_activities)) > 1
    THEN IF Spread2(focus_activities) >= SpreadDen(focus_activities) * SpreadDen(focus_activities)
         THEN 0
         ELSE 100 - NearestPercentOfRoot(Spread2(focus_activities), SpreadDen(focus_activities))
    ELSE 50

\* consistency_score < 0.5, on the value before rounding.
ConsistencyLow(focus_activities) ==
    /\ Cardinality(FocusDays(focus_activities)) > 1
    /\ 4 * Spread2(focus_activities) > SpreadDen(focus_activities) * SpreadDen(focus_activities)

\* Mutant: focus minutes over rest minutes.
BalanceRatioFocusToRest(total_focus, total_rest) ==
    IF total_rest > 0
    THEN RoundHalfEven(100 * total_focus, total_rest)
    ELSE 50

\* round(balance_ratio, 2) in hundredths.
BalanceRatio(total_focus, total_rest) ==
    IF total_focus + total_rest > 0
    THEN RoundHalfEven(100 * total_focus, total_focus + total_rest)
    ELSE 50

\* Mutant: an hour with 3 interruptions already counts as a hotspot.
SuggestionsHotspotAtThree(total_focus, total_rest, interruption_rows, focus_activities) ==
    LET total_time == total_focus + total_rest
        balance == IF total_time > 0 /\ 10 * total_focus > 8 * total_time
                   THEN <<"Consider adding more rest time to your schedule.">>
                   ELSE IF total_time > 0 /\ 10 * total_focus < 3 * total_time
                   THEN <<"You might benefit from more focused work blocks.">>
                   ELSE <<>>
        hotspot == IF interruption_rows # <<>> /\ MaxHourInterruptions(interruption_rows) >= 3
                   THEN <<"Try scheduling deep work during hours with fewer interruptions.">>
                   ELSE <<>>
        steady == IF ConsistencyLow(focus_activities)
                  THEN <<"A more consistent schedule might help you find better focus.">>
                  ELSE <<>>
        suggestions == balance \o hotspot \o steady
    IN  IF suggestions = <<>>
        THEN <<"Keep tracking to discover more patterns.">>
        ELSE suggestions

\* The sentences of the suggestion, in the order they are appended.
Suggestions(total_focus, total_rest, interruption_rows, focus_activities) ==
    LET total_time == total_focus + total_rest
        balance == IF total_time > 0 /\ 10 * total_focus > 8 * total_time
                   THEN <<"Consider adding more rest time to your schedule.">>
                   ELSE IF total_time > 0 /\ 10 * total_focus < 3 * total_time
                   THEN <<"You might benefit from more focused work blocks.">>
                   ELSE <<>>
        hotspot == IF interruption_rows # <<>> /\ MaxHourInterruptions(interruption_rows) > 3
                   THEN <<"Try scheduling deep work during hours with fewer interruptions.">>
                   ELSE <<>>
        steady == IF ConsistencyLow(focus_activities)
                  THEN <<"A more consistent schedule might help you find better focus.">>
                  ELSE <<>>
        suggestions == balance \o hotspot \o steady
    IN  IF suggestions = <<>>
        THEN <<"Keep tracking to discover more patterns.">>
        ELSE suggestions

NotEnoughData ==
    [peak_focus_window |-> <<"Not enough data yet">>,
     distraction_hotspot |-> <<"Not enough data yet">>,
     consistency_score |-> 0,
     balance_ratio |-> 50,
     suggestion |-> <<"Start logging your activities to see insights.">>]

\* Mutant: the interruptions are parsed before the empty-list return.
InsightsRaisesEagerly(activity_rows, interruption_rows) ==
    \/ /\ activity_rows # <<>>
       /\ AnyTimeUnparsable(SelectSeq(activity_rows,
              LAMBDA a : a.category \in FocusCategories \/ a.category = "Rest"))
    \/ \E i \in 1..Len(interruption_rows) : ~Parses(interruption_rows[i].time)

\* Whether generate_insights raises: it parses the times of the focus and
\* rest activities and of every interruption, once past the empty-list return.
InsightsRaises(activity_rows, interruption_rows) ==
    /\ activity_rows # <<>>
    /\ \/ AnyTimeUnparsable(SelectSeq(activity_rows,
              LAMBDA a : a.category \in FocusCategories \/ a.category = "Rest"))
       \/ \E i \in 1..Len(interruption_rows) : ~Parses(interruption_rows[i].time)

\* What generate_insights returns when it does not raise; consistency_score
\* and balance_ratio are in hundredths.
generate_insights(activity_rows, interruption_rows) ==
    IF activity_rows = <<>> THEN NotEnoughData
    ELSE LET focus_activities == SelectSeq(activity_rows, LAMBDA a : a.category \in FocusCategories)
             rest_activities == SelectSeq(activity_rows, LAMBDA a : a.category = "Rest")
             total_focus == TotalMinutes(focus_activities)
             total_rest == TotalMinutes(rest_activities)
         IN  [peak_focus_window |-> PeakWindow(focus_activities),
              distraction_hotspot |-> DistractionHotspot(interruption_rows),
              consistency_score |-> ConsistencyScore(focus_activities),
              balance_ratio |-> BalanceRatio(total_focus, total_rest),
              suggestion |-> Suggestions(total_focus, total_rest, interruption_rows, focus_activities)]

(***************************************************************************)
(* Handlers of the activities and analytics routers.                       *)
(***************************************************************************)
\* POST /activities.  The validator of ActivityCreate rejects an end_time at
\* or before start_time and a duration above 24 hours before the handler runs.
create_activity(category, start_time, end_time, work_type) ==
    LET st == ParseTime(start_time)
        en == ParseTime(end_time)
        row == [category |-> category,
                start_time |-> IsoFormat(start_time),
                end_time |-> IsoFormat(end_time),
                work_type |-> work_type]
    IN  /\ IF Instant(en) <= Instant(st)
              \/ Instant(en) - Instant(st) > MaxDurationHours * MinutesPerHour
           THEN /\ response' = HttpError("create_activity", 422)
                /\ UNCHANGED activities
           ELSE /\ activities' = Append(activities, row)
                /\ response' = HttpOk("create_activity", row)
        /\ UNCHANGED <<now, interruptions, energy_logs, transactions, tasks, habits, habit_logs, in_flight, goals>>

\* GET /analytics/streaks
get_streaks ==
    LET rows == FetchActivitiesSince(now - DaysPerYear * MinutesPerDay)
    IN  /\ response' = IF AnyStartUnparsable(rows)
                       THEN HttpError("get_streaks", 500)
                       ELSE HttpOk("get_streaks", StreakResponse(rows, Today))
        /\ UNCHANGED <<now, activities, interruptions, energy_logs, transactions, tasks, habits, habit_logs, in_flight, goals>>

\* POST /interruptions.  duration_minutes is put in the inserted row only when
\* given; the column of a row inserted without it reads back as null.
create_interruption(time, duration_minutes, type) ==
    LET row == [time |-> IsoFormat(time),
                duration_minutes |-> IF duration_minutes.tag = "int" /\ duration_minutes.v # 0
                                     THEN duration_minutes ELSE Null,
                type |-> type]
    IN  /\ interruptions' = Append(interruptions, row)
        /\ response' = HttpOk("create_interruption", row)
        /\ UNCHANGED <<now, activities, energy_logs, transactions, tasks, habits, habit_logs, in_flight, goals>>

\* GET /analytics/category-breakdown
get_category_breakdown(days) ==
    LET rows == FetchActivitiesSince(now - days * MinutesPerDay)
    IN  /\ response' = IF AnyTimeUnparsable(rows)
                       THEN HttpError("get_category_breakdown", 500)
                       ELSE HttpOk("get_category_breakdown", Breakdown(rows))
        /\ UNCHANGED <<now, activities, interruptions, energy_logs, transactions, tasks, habits, habit_logs, in_flight, goals>>

\* i.get("duration_minutes", 5)
DurationOrDefault(row) ==
    IF row.duration_minutes.tag = "absent" THEN IntVal(DefaultDurationMinutes)
    ELSE row.duration_minutes

\* GET /analytics/summary.  Numbers of the body are in tenths.
get_analytics_summary(days) ==
    LET rows == FetchActivitiesSince(now - days * MinutesPerDay)
        irows == FetchInterruptionsSince(now - days * MinutesPerDay)
        focus_activities == SelectSeq(rows, LAMBDA a : a.category \in FocusCategories)
        total_focus_minutes == TotalMinutes(focus_activities)
        total_interruption_minutes ==
            SumSeq([i \in 1..Len(irows) |-> DurationOrDefault(irows[i]).v])
        days_with_activity == Cardinality(DaysWithActivity(rows))
        insights == generate_insights(rows, irows)
        raises == \/ AnyTimeUnparsable(rows)
                  \/ \E i \in 1..Len(irows) : DurationOrDefault(irows[i]).tag = "null"
                  \/ InsightsRaises(rows, irows)
        body == [total_focus_hours |-> RoundHalfEven(10 * total_focus_minutes, MinutesPerHour),
                 total_interruption_minutes |-> 10 * total_interruption_minutes,
                 avg_daily_focus |-> IF days_with_activity > 0
                                     THEN RoundHalfEven(10 * total_focus_minutes,
                                                        MinutesPerHour * days_with_activity)
                                     ELSE 0,
                 category_breakdown |-> Breakdown(rows),
                 streaks |-> StreakResponse(rows, Today),
                 quality_score |-> 10 * insights.consistency_score]
    IN  /\ response' = IF raises THEN HttpError("get_analytics_summary", 500)
                       ELSE HttpOk("get_analytics_summary", body)
        /\ UNCHANGED <<now, activities, interruptions, energy_logs, transactions, tasks, habits, habit_logs, in_flight, goals>>

\* The server clock passes midnight.
AdvanceDay ==
    /\ Today < MaxClockDay
    /\ now' = now + MinutesPerDay
    /\ UNCHANGED <<activities, interruptions, energy_logs, transactions, tasks, response, habits, habit_logs, in_flight, goals>>

\* The `days` query parameter of the analytics endpoints (default 30).
DaysParams == {30}

EmptyStore ==
    /\ activities = <<>>
    /\ interruptions = <<>>
    /\ energy_logs = <<>>
    /\ transactions = <<>>
    /\ tasks = <<>>
    /\ habits = <<>>
    /\ habit_logs = <<>>
    /\ in_flight = {}
    /\ response = NoResponse
    /\ goals = <<>>

(***************************************************************************)
(* The streak endpoints over a store filled by create_activity.            *)
(***************************************************************************)
\* The days activities are logged on: the clock's first day, the two days
\* before it, the day five days before it, and the days after it up to MaxDay.
StreakDays == {StartDay - 5} \cup ((StartDay - 2)..MaxDay)

StreakStartTimes == {[wall |-> d * MinutesPerDay + 9 * MinutesPerHour, suffix |-> "Z"] : d \in StreakDays}

InitStreak ==
    /\ now = StartDay * MinutesPerDay + 12 * MinutesPerHour
    /\ EmptyStore

NextStreak ==
    \/ \E st \in StreakStartTimes :
          /\ Len(activities) < MaxStreakActivities
          /\ create_activity("Work", st, [st EXCEPT !.wall = @ + MinutesPerHour], NullStr)
    \/ get_streaks
    \/ \E days \in DaysParams : get_analytics_summary(days)
    \/ AdvanceDay

SpecStreak == InitStreak /\ [][NextStreak]_vars

\* The calendar dates of the stored activities, and the streak block of the
\* last response when it is one of the two streak endpoints'.
ActivityDates == DaysWithActivity(activities)

StreaksAnswered == response.status = 200 /\ response.op \in {"get_streaks", "get_analytics_summary"}

AnsweredStreaks ==
    IF response.op = "get_streaks" THEN response.body ELSE response.body.streaks

AnsweredToday == response.at \div MinutesPerDay

\* C1: with no activities, get_streaks and the streak block of
\* get_analytics_summary answer current_streak = 0, longest_streak = 0 and
\* days_with_activity = 0, and do not fail.
C1_EmptyStreaksAllZero ==
    (response.op \in {"get_streaks", "get_analytics_summary"} /\ activities = <<>>)
        => /\ response.status = 200
           /\ AnsweredStreaks = [current_streak |-> 0, longest_streak |-> 0,
                                 days_with_activity |-> 0]

\* The number of consecutive days, counted backward from `today`, that are
\* all in the set S.
RunEndingAt(S, today) ==
    SetMax({n \in 0..Cardinality(S) : \A k \in 0..(n - 1) : (today - k) \in S})

\* C2: for every set of activity dates, dates after today included,
\* current_streak is the number of consecutive calendar days, counted
\* backward from today, that each have an entry.
C2_CurrentStreakCountsBackFromToday ==
    StreaksAnswered => AnsweredStreaks.current_streak = RunEndingAt(ActivityDates, AnsweredToday)

\* The length of the longest run of consecutive days that are all in S.
MaxRunLength(S) ==
    SetMax({n \in 0..Cardinality(S) : \E d \in S : \A k \in 0..(n - 1) : (d + k) \in S})

\* C3: for every non-empty set of activity dates, longest_streak is the
\* length of the longest run of consecutive calendar days in the set, the
\* run the scan ends on included, and is at least 1.
C3_LongestStreakIsMaxRun ==
    (StreaksAnswered /\ activities # <<>>)
        => /\ AnsweredStreaks.longest_streak = MaxRunLength(ActivityDates)
           /\ AnsweredStreaks.longest_streak >= 1

\* C3's case: the dates {today, today-1, today-2, today-5} answered with a
\* longest streak of 3, the run the scan ends on being a single day.
C3_Witness ==
    /\ StreaksAnswered
    /\ ActivityDates = {AnsweredToday, AnsweredToday - 1, AnsweredToday - 2, AnsweredToday - 5}
    /\ AnsweredStreaks.longest_streak = 3
    /\ AnsweredStreaks.current_streak = 3

(***************************************************************************)
(* The category aggregator over a store filled by create_activity.         *)
(***************************************************************************)
\* The durations, in minutes, of the activities logged here.
CategoryDurations == {10, 130}

\* The categories logged here: two focus categories, Rest and Social.
CategoryChoices == {"Study", "Work", "Rest", "Social"}

CategoryStart == [wall |-> StartDay * MinutesPerDay + 9 * MinutesPerHour, suffix |-> "Z"]

InitCategory ==
    /\ now = StartDay * MinutesPerDay + 12 * MinutesPerHour
    /\ EmptyStore

NextCategory ==
    \/ \E category \in CategoryChoices, d \in CategoryDurations :
          /\ Len(activities) < MaxCategoryActivities
          /\ create_activity(category, CategoryStart, [CategoryStart EXCEPT !.wall = @ + d], NullStr)
    \/ \E days \in DaysParams : get_category_breakdown(days)
    \/ \E days \in DaysParams : get_analytics_summary(days)

SpecCategory == InitCategory /\ [][NextCategory]_vars

BreakdownAnswered ==
    response.status = 200 /\ response.op \in {"get_category_breakdown", "get_analytics_summary"}

AnsweredBreakdown ==
    IF response.op = "get_category_breakdown" THEN response.body
    ELSE response.body.category_breakdown

\* The sum of the emitted percentages, in tenths of a percent.
PercentageSum(breakdown) == SumSeq([i \in 1..Len(breakdown) |-> breakdown[i].percentage])

Abs(x) == IF x >= 0 THEN x ELSE 0 - x

\* C4 as stated: for every non-empty list of activities the emitted
\* percentages sum to 100 within 0.1.
C4_PercentagesSumWithinTenth ==
    (BreakdownAnswered /\ activities # <<>>)
        => Abs(PercentageSum(AnsweredBreakdown) - 1000) <= 1

\* C4 as amended: for every non-empty list of activities the emitted
\* percentages sum to 100 within 0.05 times the number of categories
\* emitted (so within 0.35 for the seven categories).
C4_PercentagesSumWithinHalfTenthEach ==
    (BreakdownAnswered /\ activities # <<>>)
        => 2 * Abs(PercentageSum(AnsweredBreakdown) - 1000) <= Len(AnsweredBreakdown)

\* C4's case: four categories whose rounded percentages sum to 99.8.
C4_Witness ==
    /\ BreakdownAnswered
    /\ Len(AnsweredBreakdown) = 4
    /\ PercentageSum(AnsweredBreakdown) = 998

(***************************************************************************)
(* generate_insights called directly on lists its caller hands it.         *)
(***************************************************************************)
\* Mutant: a parse failure is caught and answered with the fixed result.
call_generate_insights_swallowing ==
    /\ response' = IF InsightsRaises(activities, interruptions)
                   THEN Returned("generate_insights", <<activities, interruptions>>, NotEnoughData)
                   ELSE Returned("generate_insights", <<activities, interruptions>>,
                                 generate_insights(activities, interruptions))
    /\ UNCHANGED <<now, activities, interruptions, energy_logs, transactions, tasks, habits, habit_logs, in_flight, goals>>

call_generate_insights ==
    /\ response' = IF InsightsRaises(activities, interruptions)
                   THEN Raised("generate_insights", <<activities, interruptions>>)
                   ELSE Returned("generate_insights", <<activities, interruptions>>,
                                 generate_insights(activities, interruptions))
    /\ UNCHANGED <<now, activities, interruptions, energy_logs, transactions, tasks, habits, habit_logs, in_flight, goals>>

\* All sequences over S of length at most n.
SeqsUpTo(S, n) == UNION {[1..k -> S] : k \in 0..n}

Activity(category, day, hour, minutes) ==
    [category |-> category,
     start_time |-> [wall |-> day * MinutesPerDay + hour * MinutesPerHour, suffix |-> "Z"],
     end_time |-> [wall |-> day * MinutesPerDay + hour * MinutesPerHour + minutes, suffix |-> "Z"]]

\* Focus sessions of 20 or 40 minutes in the morning and the evening of one
\* day and the morning of the next, and a rest.
InsightActivities ==
    {Activity("Work", StartDay, 10, m) : m \in {20, 40}}
        \cup {Activity("Work", StartDay, 20, m) : m \in {20, 40}}
        \cup {Activity("Work", StartDay + 1, 10, m) : m \in {20, 40}}
        \cup {Activity("Rest", StartDay, 12, 30)}

\* An interruption with a well-formed time, and one whose time is not ISO.
InsightInterruptions ==
    {[time |-> [wall |-> StartDay * MinutesPerDay + 10 * MinutesPerHour, suffix |-> "Z"],
      duration_minutes |-> Absent, type |-> "Phone"],
     [time |-> [wall |-> 0, suffix |-> "not a time"],
      duration_minutes |-> Absent, type |-> "Phone"]}

InitInsights ==
    /\ now = StartDay * MinutesPerDay + 12 * MinutesPerHour
    /\ activities \in SeqsUpTo(InsightActivities, MaxInsightActivities)
    /\ interruptions \in SeqsUpTo(InsightInterruptions, MaxInsightInterruptions)
    /\ energy_logs = <<>>
    /\ transactions = <<>>
    /\ tasks = <<>>
    /\ habits = <<>>
    /\ habit_logs = <<>>
    /\ in_flight = {}
    /\ response = NoResponse
    /\ goals = <<>>

NextInsights == call_generate_insights

SpecInsights == InitInsights /\ [][NextInsights]_vars

InsightsReturned == response.op = "generate_insights" /\ ~response.body.raised

\* Every activity's start_time and end_time moved by the same offset.
Shifted(rows, offset) ==
    [i \in 1..Len(rows) |->
        [rows[i] EXCEPT !.start_time.wall = @ + offset, !.end_time.wall = @ + offset]]

\* Offsets of a quarter day, half a day and whole days, in minutes.
AnyOffsets == {6 * MinutesPerHour, 12 * MinutesPerHour, MinutesPerDay, 0 - MinutesPerDay}

WholeDayOffsets == {MinutesPerDay, 0 - MinutesPerDay, 5 * MinutesPerDay}

\* C5 as stated: shifting start_time and end_time of all activities by any
\* one offset leaves consistency_score unchanged.
C5_ConsistencyInvariantUnderAnyShift ==
    InsightsReturned =>
        \A offset \in AnyOffsets :
            generate_insights(Shifted(activities, offset), interruptions).consistency_score
                = response.body.value.consistency_score

\* C5 as amended: shifting start_time and end_time of all activities by one
\* offset that is a whole number of days leaves consistency_score unchanged.
C5_ConsistencyInvariantUnderDayShift ==
    InsightsReturned =>
        \A offset \in WholeDayOffsets :
            generate_insights(Shifted(activities, offset), interruptions).consistency_score
                = response.body.value.consistency_score

\* C5's case: focus on two days with unequal minutes, scored between the
\* default and the maximum.
C5_Witness ==
    /\ InsightsReturned
    /\ Cardinality(FocusDays(SelectSeq(activities, LAMBDA a : a.category \in FocusCategories))) = 2
    /\ response.body.value.consistency_score \notin {0, 50, 100}

\* C7: generate_insights called with no activities returns the fixed "not
\* enough data" record whatever the interruptions are, a malformed one
\* included, and does not raise.
C7_EmptyActivitiesFixedAnswer ==
    (response.op = "generate_insights" /\ activities = <<>>)
        => /\ ~response.body.raised
           /\ response.body.value =
                 [peak_focus_window |-> <<"Not enough data yet">>,
                  distraction_hotspot |-> <<"Not enough data yet">>,
                  consistency_score |-> 0,
                  balance_ratio |-> 50,
                  suggestion |-> <<"Start logging your activities to see insights.">>]

\* C7's case: no activities and an interruption whose time does not parse.
C7_Witness ==
    /\ response.op = "generate_insights"
    /\ activities = <<>>
    /\ \E i \in 1..Len(interruptions) : ~Parses(interruptions[i].time)
    /\ ~response.body.raised

(***************************************************************************)
(* Cross-domain insights (routers/cross_domain.py) and the handlers that   *)
(* fill the tables it reads.  A date string is the number of its day;      *)
(* amounts are in cents.                                                   *)
(***************************************************************************)
\* POST /energy by a request that no other request runs in between of: one
\* log per date; a second request for a date updates the log of that date.
create_energy_log(date, energy_level, stress_level) ==
    LET existing == {i \in 1..Len(energy_logs) : energy_logs[i].date = date}
        row == [date |-> date, energy_level |-> energy_level, stress_level |-> stress_level]
    IN  /\ energy_logs' = IF existing # {}
                          THEN [i \in 1..Len(energy_logs) |->
                                   IF i \in existing THEN row ELSE energy_logs[i]]
                          ELSE Append(energy_logs, row)
        /\ response' = HttpOk("create_energy_log", row)
        /\ UNCHANGED <<now, activities, interruptions, transactions, tasks, habits, habit_logs, in_flight, goals>>

\* POST /finances/transactions
create_transaction(amount, type, date) ==
    LET row == [amount |-> amount, type |-> type, date |-> date]
    IN  /\ transactions' = Append(transactions, row)
        /\ response' = HttpOk("create_transaction", row)
        /\ UNCHANGED <<now, activities, interruptions, energy_logs, tasks, habits, habit_logs, in_flight, goals>>

\* POST /planner/tasks: the status column defaults to pending.
create_task(due_date) ==
    LET row == [id |-> Len(tasks) + 1, due_date |-> due_date, status |-> "pending"]
    IN  /\ tasks' = Append(tasks, row)
        /\ response' = HttpOk("create_task", row)
        /\ UNCHANGED <<now, activities, interruptions, energy_logs, transactions, habits, habit_logs, in_flight, goals>>

\* PATCH /planner/tasks/{task_id} with a status.  The HTTPException(404) for
\* no matching row is raised inside the try block, whose except clause
\* answers every exception with 500.
update_task(task_id, status) ==
    LET matching == {i \in 1..Len(tasks) : tasks[i].id = task_id}
    IN  /\ tasks' = [i \in 1..Len(tasks) |->
                        IF i \in matching THEN [tasks[i] EXCEPT !.status = status]
                        ELSE tasks[i]]
        /\ response' = IF matching = {}
                       THEN HttpError("update_task", 500)
                       ELSE HttpOk("update_task",
                                   [tasks[CHOOSE i \in matching : TRUE] EXCEPT !.status = status])
        /\ UNCHANGED <<now, activities, interruptions, energy_logs, transactions, habits, habit_logs, in_flight, goals>>

\* sum(float(t["amount"]) for t in transactions if t["type"] == "expense"
\*     and t["date"] in dates)
ExpensesOn(rows, dates) ==
    LET mine == SelectSeq(rows, LAMBDA t : t.type = "expense" /\ t.date \in dates)
    IN  SumSeq([i \in 1..Len(mine) |-> mine[i].amount])

\* Insight 1 divides by avg_high when avg_low > avg_high * 1.2.
EnergySpendingFires(low_spending, n_low, high_spending, n_high) ==
    10 * low_spending * n_high > 12 * high_spending * n_low

\* Insight 1 (low energy, higher spending) of get_cross_domain_insights: the
\* list it adds to insights.  The averages are in cents, difference_percent
\* in tenths of a percent.  Not defined when EnergySpendingDivides by zero.
EnergySpendingInsight(energy_rows, transaction_rows) ==
    LET low_energy_days == SelectSeq(energy_rows, LAMBDA e : e.energy_level <= 2)
        high_energy_days == SelectSeq(energy_rows, LAMBDA e : e.energy_level >= 4)
        low_energy_dates == {low_energy_days[i].date : i \in 1..Len(low_energy_days)}
        high_energy_dates == {high_energy_days[i].date : i \in 1..Len(high_energy_days)}
        low_energy_spending == ExpensesOn(transaction_rows, low_energy_dates)
        high_energy_spending == ExpensesOn(transaction_rows, high_energy_dates)
        n_low == Len(low_energy_days)
        n_high == Len(high_energy_days)
    IN  IF /\ n_low > 0
           /\ n_high > 0
           /\ EnergySpendingFires(low_energy_spending, n_low, high_energy_spending, n_high)
        THEN <<[type |-> "energy_spending",
                data |-> [low_energy_avg |-> RoundHalfEven(low_energy_spending, n_low),
                          high_energy_avg |-> RoundHalfEven(high_energy_spending, n_high),
                          difference_percent |->
                              RoundHalfEven(1000 * (low_energy_spending * n_high
                                                       - high_energy_spending * n_low),
                                            high_energy_spending * n_low)]]>>
        ELSE <<>>

\* Whether insight 1 raises ZeroDivisionError: the rule fires and avg_high,
\* the divisor of difference_percent, is 0.
EnergySpendingDividesByZero(energy_rows, transaction_rows) ==
    LET low_energy_days == SelectSeq(energy_rows, LAMBDA e : e.energy_level <= 2)
        high_energy_days == SelectSeq(energy_rows, LAMBDA e : e.energy_level >= 4)
        low_energy_spending ==
            ExpensesOn(transaction_rows, {low_energy_days[i].date : i \in 1..Len(low_energy_days)})
        high_energy_spending ==
            ExpensesOn(transaction_rows, {high_energy_days[i].date : i \in 1..Len(high_energy_days)})
    IN  /\ Len(low_energy_days) > 0
        /\ Len(high_energy_days) > 0
        /\ EnergySpendingFires(low_energy_spending, Len(low_energy_days),
                               high_energy_spending, Len(high_energy_days))
        /\ high_energy_spending = 0

\* Insight 2 (deep work sessions).
FocusQualityInsight(activity_rows) ==
    LET deep == SelectSeq(activity_rows, LAMBDA a : a.work_type = "deep")
        shallow == SelectSeq(activity_rows, LAMBDA a : a.work_type = "shallow")
    IN  IF deep # <<>>
        THEN <<[type |-> "focus_quality",
                data |-> [deep_work_count |-> Len(deep), shallow_work_count |-> Len(shallow)]]>>
        ELSE <<>>

\* Insight 3 (task completion rate below 60%); completion_rate in tenths.
TaskCompletionInsight(task_rows) ==
    LET completed == SelectSeq(task_rows, LAMBDA t : t.status = "completed")
    IN  IF task_rows # <<>> /\ 100 * Len(completed) < 60 * Len(task_rows)
        THEN <<[type |-> "task_completion",
                data |-> [completion_rate |-> RoundHalfEven(1000 * Len(completed), Len(task_rows)),
                          total_tasks |-> Len(task_rows),
                          completed |-> Len(completed)]]>>
        ELSE <<>>

\* GET /cross-domain/insights
get_cross_domain_insights(days) ==
    LET start_date == Today - days
        energy_rows == SelectSeq(energy_logs, LAMBDA e : e.date >= start_date)
        transaction_rows == SelectSeq(transactions, LAMBDA t : t.date >= start_date)
        activity_rows == FetchActivitiesSince(start_date * MinutesPerDay)
        task_rows == SelectSeq(tasks, LAMBDA t : t.due_date.tag = "int" /\ t.due_date.v >= start_date)
    IN  /\ response' = IF EnergySpendingDividesByZero(energy_rows, transaction_rows)
                       THEN HttpError("get_cross_domain_insights", 500)
                       ELSE HttpOk("get_cross_domain_insights",
                                   EnergySpendingInsight(energy_rows, transaction_rows)
                                       \o FocusQualityInsight(activity_rows)
                                       \o TaskCompletionInsight(task_rows))
        /\ UNCHANGED <<now, activities, interruptions, energy_logs, transactions, tasks, habits, habit_logs, in_flight, goals>>

(***************************************************************************)
(* The cross-domain insights over a store of two days.                     *)
(***************************************************************************)
CrossDates == {StartDay - 1, StartDay}

\* A low, a middling and a high energy level.
CrossEnergyLevels == {2, 3, 4}

\* Amounts of 10.00 and 25.00.
CrossAmounts == {1000, 2500}

InitCross ==
    /\ now = StartDay * MinutesPerDay + 12 * MinutesPerHour
    /\ EmptyStore

NextCross ==
    \/ \E date \in CrossDates, energy_level \in CrossEnergyLevels :
          create_energy_log(date, energy_level, 3)
    \/ \E amount \in CrossAmounts, date \in CrossDates :
          /\ Len(transactions) < MaxTransactions
          /\ create_transaction(amount, "expense", date)
    \/ /\ Len(transactions) < MaxTransactions
       /\ create_transaction(1000, "income", StartDay)
    \/ /\ activities = <<>>
       /\ \E work_type \in {"deep", NullStr} :
             create_activity("Work", CategoryStart,
                             [CategoryStart EXCEPT !.wall = @ + MinutesPerHour], work_type)
    \/ /\ tasks = <<>>
       /\ create_task(IntVal(StartDay))
    \/ \E task_id \in 1..2 : update_task(task_id, "completed")
    \/ \E days \in DaysParams : get_cross_domain_insights(days)

SpecCross == InitCross /\ [][NextCross]_vars

\* C6: no analytics computation faults on a division by zero; for every
\* combination of energy logs and transactions get_cross_domain_insights
\* answers with a list of insights, not an error.
C6_CrossDomainInsightsNeverFault ==
    response.op = "get_cross_domain_insights" => response.status = 200

(***************************************************************************)
(* Interruption cost model (__tests__/test_interruption_metrics.py).       *)
(* Weights are in tenths and a cost in hundredths; datetimes are in        *)
(* seconds.                                                                *)
(***************************************************************************)
\* A dict without the "type" key.
NoType == "<no type key>"

\* Mutant: an unknown type weighs as "Other" does.
TypeWeightUnknownAsOther(type) ==
    CASE type = "Phone" -> 12
      [] type = "Social Media" -> 14
      [] type = "Noise" -> 10
      [] OTHER -> 11

\* Mutant: the weights of Phone and Social Media exchanged.
TypeWeightPhoneAboveSocial(type) ==
    CASE type \in {"Phone"} -> 14
      [] type = "Social Media" -> 12
      [] type = "Noise" -> 10
      [] type \in {"Other", NoType} -> 11
      [] OTHER -> 10

\* type_weights.get(interruption.get("type", "Other"), 1.0)
TypeWeight(type) ==
    CASE type = "Phone" -> 12
      [] type = "Social Media" -> 14
      [] type = "Noise" -> 10
      [] type \in {"Other", NoType} -> 11
      [] OTHER -> 10

\* 1.3 if is_early_focus else 1.0
ContextWeight(is_early_focus) == IF is_early_focus THEN 13 ELSE 10

\* duration * type_weight * context_weight, in hundredths.
calculate_interruption_cost(interruption, is_early_focus) ==
    DurationOrDefault(interruption).v * TypeWeight(interruption.type)
        * ContextWeight(is_early_focus)

\* A duration_minutes of None cannot be multiplied: TypeError.
call_calculate_interruption_cost(interruption, is_early_focus) ==
    /\ response' = IF DurationOrDefault(interruption).tag = "null"
                   THEN Raised("calculate_interruption_cost", <<interruption, is_early_focus>>)
                   ELSE Returned("calculate_interruption_cost", <<interruption, is_early_focus>>,
                                 calculate_interruption_cost(interruption, is_early_focus))
    /\ UNCHANGED <<now, activities, interruptions, energy_logs, transactions, tasks, habits, habit_logs, in_flight, goals>>

\* Mutant: a next focus at the very time of the interruption counts.
calculate_recovery_time_strict(interruption_time, next_focus_time) ==
    IF next_focus_time.tag = "null" THEN Null
    ELSE IF next_focus_time.v < interruption_time THEN Null
    ELSE IntVal((next_focus_time.v - interruption_time) \div 60)

\* None if next_focus_time is None or at or before interruption_time, else
\* int(delta.total_seconds() / 60).
calculate_recovery_time(interruption_time, next_focus_time) ==
    IF next_focus_time.tag = "null" THEN Null
    ELSE IF next_focus_time.v <= interruption_time THEN Null
    ELSE IntVal((next_focus_time.v - interruption_time) \div 60)

call_calculate_recovery_time(interruption_time, next_focus_time) ==
    /\ response' = Returned("calculate_recovery_time", <<interruption_time, next_focus_time>>,
                            calculate_recovery_time(interruption_time, next_focus_time))
    /\ UNCHANGED <<now, activities, interruptions, energy_logs, transactions, tasks, habits, habit_logs, in_flight, goals>>

\* duration_minutes: missing from the dict, None, or a number of minutes.
CostDurations == {Absent, Null} \cup {IntVal(d) : d \in {1, 5, 10, 15, 60, 480}}

\* The four types, a type the table does not know, and no type at all.
CostTypes == {"Phone", "Social Media", "Noise", "Other", "Email", NoType}

\* Seconds from the interruption to the next focus: before it, at it, within
\* the first minute, whole minutes, and a minute and a half short of an hour.
RecoveryDeltas == {0 - 600, 0 - 1, 0, 1, 59, 60, 61, 1800, 1859, 3510}

RecoveryTimes == {600 + 3600 * h : h \in 0..MaxRecoveryHour}

InitCost ==
    /\ now = StartDay * MinutesPerDay + 12 * MinutesPerHour
    /\ EmptyStore

NextCost ==
    \/ \E duration_minutes \in CostDurations, type \in CostTypes, is_early_focus \in BOOLEAN :
          call_calculate_interruption_cost(
              [duration_minutes |-> duration_minutes, type |-> type], is_early_focus)
    \/ \E t \in RecoveryTimes, d \in RecoveryDeltas :
          call_calculate_recovery_time(t, IntVal(t + d))
    \/ \E t \in RecoveryTimes : call_calculate_recovery_time(t, Null)

SpecCost == InitCost /\ [][NextCost]_vars

CostReturned == response.op = "calculate_interruption_cost" /\ ~response.body.raised

CostArgDuration == response.body.args[1].duration_minutes

CostArgType == response.body.args[1].type

CostArgEarly == response.body.args[2]

\* C8: the cost is duration_minutes x type_weight x context_weight, with a
\* duration of 5 when absent, type weights 1.2 (Phone), 1.4 (Social Media),
\* 1.0 (Noise), 1.1 (Other) and 1.0 for an unknown type, and a context weight
\* of 1.3 in early focus and 1.0 otherwise; 15 minutes of Social Media in
\* early focus cost 15 x 1.4 x 1.3 = 27.3.
C8_CostIsDurationTimesWeights ==
    (CostReturned /\ CostArgType # NoType) =>
        LET minutes == IF CostArgDuration = Absent THEN 5 ELSE CostArgDuration.v
            tenths == IF CostArgType = "Phone" THEN 12
                      ELSE IF CostArgType = "Social Media" THEN 14
                      ELSE IF CostArgType = "Noise" THEN 10
                      ELSE IF CostArgType = "Other" THEN 11
                      ELSE 10
        IN  /\ CostArgEarly => response.body.value * 10 = minutes * tenths * 130
            /\ ~CostArgEarly => response.body.value = minutes * tenths * 10
            /\ (CostArgDuration = IntVal(15) /\ CostArgType = "Social Media" /\ CostArgEarly)
                  => response.body.value = 2730

\* C8's case: an interruption of an unknown type and no duration_minutes, in
\* early focus, costs 5 x 1.0 x 1.3.
C8_Witness ==
    /\ CostReturned
    /\ CostArgDuration = Absent
    /\ CostArgType = "Email"
    /\ CostArgEarly
    /\ response.body.value = 650

\* C9: for every positive duration and either value of is_early_focus,
\* cost(Social Media) > cost(Phone) > cost(Noise) at that duration.
C9_CostOrderedByType ==
    (CostReturned /\ CostArgType = "Phone" /\ CostArgDuration.tag = "int") =>
        /\ calculate_interruption_cost(
               [response.body.args[1] EXCEPT !.type = "Social Media"], CostArgEarly)
              > response.body.value
        /\ response.body.value
              > calculate_interruption_cost(
                    [response.body.args[1] EXCEPT !.type = "Noise"], CostArgEarly)

\* C9's case: a Phone interruption of 10 minutes in early focus, costed.
C9_Witness ==
    /\ CostReturned
    /\ CostArgType = "Phone"
    /\ CostArgDuration = IntVal(10)
    /\ CostArgEarly
    /\ response.body.value = 1560

RecoveryReturned == response.op = "calculate_recovery_time" /\ ~response.body.raised

\* C10: the recovery time is the whole number of minutes, rounded down and
\* so at least 0, from interruption_time to a strictly later next_focus_time
\* (30 for T and T + 30 min), and is None, without raising, when
\* next_focus_time is absent or at or before interruption_time.
C10_RecoveryTimeFloorsOrUnknown ==
    response.op = "calculate_recovery_time" =>
        LET t == response.body.args[1]
            next == response.body.args[2]
            recovery == response.body.value
        IN  /\ ~response.body.raised
            /\ (next = Null \/ next.v <= t) => recovery = Null
            /\ (next # Null /\ next.v > t) =>
                  /\ recovery.tag = "int"
                  /\ recovery.v >= 0
                  /\ 60 * recovery.v <= next.v - t
                  /\ next.v - t < 60 * (recovery.v + 1)
            /\ (next # Null /\ next.v = t + 30 * 60) => recovery = IntVal(30)

\* C10's case: a next focus 30 minutes and 59 seconds after the
\* interruption, answered 30.
C10_Witness ==
    /\ RecoveryReturned
    /\ response.body.args[2] = IntVal(response.body.args[1] + 1859)
    /\ response.body.value = IntVal(30)

(***************************************************************************)
(* Correlation engine (routers/cross_domain.py): the per-day records of    *)
(* the energy-spending and the time-money correlation.  A date string is   *)
(* the number of its day; amounts are in cents, hours in hundredths.       *)
(***************************************************************************)
SetMin(S) == CHOOSE m \in S : \A x \in S : m <= x

\* Mutant: the keys come out newest first.
SortedNewestFirst(S) == SortedDesc(S)

\* sorted(daily_data.items()): the keys in ascending order.  The keys are
\* date.isoformat() strings, whose order as strings is the order of the days.
RECURSIVE SortedAsc(_)
SortedAsc(S) ==
    IF S = {} THEN <<>>
    ELSE LET m == SetMin(S) IN <<m>> \o SortedAsc(S \ {m})

\* Mutant: every transaction of the date counts as an expense.
AllRowsOn(transaction_rows, date) ==
    SelectSeq(transaction_rows, LAMBDA t : t.date = date)

\* The transactions that add to daily_expenses of a date's bucket.
ExpenseRowsOn(transaction_rows, date) ==
    SelectSeq(transaction_rows, LAMBDA t : t.date = date /\ t.type = "expense")

\* The transactions that add to daily_income: every type but expense.
IncomeRowsOn(transaction_rows, date) ==
    SelectSeq(transaction_rows, LAMBDA t : t.date = date /\ t.type # "expense")

SumAmounts(rows) == SumSeq([i \in 1..Len(rows) |-> rows[i].amount])

\* The keys of daily_data in the energy-spending correlation: the loop over
\* the energy logs creates the buckets, the loop over the transactions skips
\* a date that has none.
EnergySpendingDates(energy_rows) == {energy_rows[i].date : i \in 1..Len(energy_rows)}

\* daily_data[log_date] = {...}: a later log of a date overwrites the bucket.
LastLogOn(energy_rows, date) ==
    energy_rows[SetMax({i \in 1..Len(energy_rows) : energy_rows[i].date = date})]

EnergySpendingRecord(energy_rows, transaction_rows, date) ==
    [date |-> date,
     energy_level |-> LastLogOn(energy_rows, date).energy_level,
     stress_level |-> LastLogOn(energy_rows, date).stress_level,
     daily_expenses |-> SumAmounts(ExpenseRowsOn(transaction_rows, date)),
     expense_count |-> Len(ExpenseRowsOn(transaction_rows, date))]

\* GET /cross-domain/energy-spending
get_energy_spending_correlation(days) ==
    LET start_date == Today - days
        energy_rows == SelectSeq(energy_logs, LAMBDA e : e.date >= start_date)
        transaction_rows == SelectSeq(transactions, LAMBDA t : t.date >= start_date)
        sorted_dates == SortedAsc(EnergySpendingDates(energy_rows))
    IN  /\ response' = HttpOk("get_energy_spending_correlation",
                              [i \in 1..Len(sorted_dates) |->
                                  EnergySpendingRecord(energy_rows, transaction_rows,
                                                       sorted_dates[i])])
        /\ UNCHANGED <<now, activities, interruptions, energy_logs, transactions, tasks,
                       habits, habit_logs, in_flight, goals>>

ActivityDatesOf(activity_rows) ==
    {DateOf(ParseTime(activity_rows[i].start_time)) : i \in 1..Len(activity_rows)}

\* Mutant: an interruption creates the bucket of its date too.
TimeMoneyDatesWithInterruptions(activity_rows, interruption_rows, transaction_rows) ==
    ActivityDatesOf(activity_rows)
        \cup {DateOf(ParseTime(interruption_rows[i].time)) : i \in 1..Len(interruption_rows)}
        \cup {transaction_rows[i].date : i \in 1..Len(transaction_rows)}

\* The keys of daily_data in the time-money correlation: the loops over the
\* activities and over the transactions create buckets, the loop over the
\* interruptions only counts into a bucket that exists.
TimeMoneyDates(activity_rows, interruption_rows, transaction_rows) ==
    ActivityDatesOf(activity_rows)
        \cup {transaction_rows[i].date : i \in 1..Len(transaction_rows)}

\* The interruption loop runs after the activity loop and before the
\* transaction loop: it finds the buckets of the activities only.
TimeMoneyInterruptionCount(activity_rows, interruption_rows, date) ==
    IF date \in ActivityDatesOf(activity_rows)
    THEN Len(SelectSeq(interruption_rows, LAMBDA r : DateOf(ParseTime(r.time)) = date))
    ELSE 0

TimeMoneyRecord(activity_rows, interruption_rows, transaction_rows, date) ==
    LET mine == SelectSeq(activity_rows, LAMBDA a : DateOf(ParseTime(a.start_time)) = date)
    IN  [date |-> date,
         activity_count |-> Len(mine),
         total_hours |-> RoundHalfEven(100 * TotalMinutes(mine), MinutesPerHour),
         interruption_count |-> TimeMoneyInterruptionCount(activity_rows, interruption_rows, date),
         daily_expenses |-> SumAmounts(ExpenseRowsOn(transaction_rows, date)),
         daily_income |-> SumAmounts(IncomeRowsOn(transaction_rows, date))]

\* GET /cross-domain/time-money
get_time_money_correlation(days) ==
    LET start_date == Today - days
        activity_rows == FetchActivitiesSince(start_date * MinutesPerDay)
        interruption_rows == FetchInterruptionsSince(start_date * MinutesPerDay)
        transaction_rows == SelectSeq(transactions, LAMBDA t : t.date >= start_date)
        sorted_dates ==
            SortedAsc(TimeMoneyDates(activity_rows, interruption_rows, transaction_rows))
    IN  /\ response' =
              IF AnyTimeUnparsable(activity_rows)
                 \/ \E i \in 1..Len(interruption_rows) : ~Parses(interruption_rows[i].time)
              THEN HttpError("get_time_money_correlation", 500)
              ELSE HttpOk("get_time_money_correlation",
                          [i \in 1..Len(sorted_dates) |->
                              TimeMoneyRecord(activity_rows, interruption_rows,
                                              transaction_rows, sorted_dates[i])])
        /\ UNCHANGED <<now, activities, interruptions, energy_logs, transactions, tasks,
                       habits, habit_logs, in_flight, goals>>

(***************************************************************************)
(* The correlations over a store of three days.                            *)
(***************************************************************************)
\* The days interruptions fall on: two days ago, yesterday and today.
CorrelationDates == (StartDay - 2)..StartDay

NoonOf(day) == [wall |-> day * MinutesPerDay + 12 * MinutesPerHour, suffix |-> "Z"]

InitCorrelation ==
    /\ now = StartDay * MinutesPerDay + 18 * MinutesPerHour
    /\ EmptyStore

NextCorrelation ==
    \/ \E date \in CrossDates, energy_level \in {2, 4} :
          create_energy_log(date, energy_level, 3)
    \/ \E amount \in CrossAmounts, date \in CrossDates :
          /\ Len(transactions) < MaxTransactions
          /\ create_transaction(amount, "expense", date)
    \/ \E date \in CrossDates :
          /\ Len(transactions) < MaxTransactions
          /\ create_transaction(1000, "income", date)
    \/ /\ activities = <<>>
       /\ create_activity("Work", CategoryStart,
                          [CategoryStart EXCEPT !.wall = @ + 90], NullStr)
    \/ \E date \in CorrelationDates :
          /\ interruptions = <<>>
          /\ create_interruption(NoonOf(date), IntVal(5), "Phone")
    \/ \E days \in DaysParams : get_energy_spending_correlation(days)
    \/ \E days \in DaysParams : get_time_money_correlation(days)

SpecCorrelation == InitCorrelation /\ [][NextCorrelation]_vars

\* The sum of the amounts of the transactions at the positions of a set.
RECURSIVE SumAmountsAt(_)
SumAmountsAt(positions) ==
    IF positions = {} THEN 0
    ELSE LET i == CHOOSE i \in positions : TRUE
         IN  transactions[i].amount + SumAmountsAt(positions \ {i})

ExpensePositionsOn(date) ==
    {i \in 1..Len(transactions) : transactions[i].date = date /\ transactions[i].type = "expense"}

EnergyLogDates == {energy_logs[i].date : i \in 1..Len(energy_logs)}

TransactionDates == {transactions[i].date : i \in 1..Len(transactions)}

EnergySpendingAnswered == response.op = "get_energy_spending_correlation"

\* C11: the energy-spending correlation emits one record for each date that
\* has an energy log and for no other date (a transaction on a date without
\* an energy log creates no record), and each record's daily_expenses and
\* expense_count are the sum and the count of the date's transactions of
\* type expense only.
C11_EnergySpendingRecordsFollowEnergyLogs ==
    EnergySpendingAnswered =>
        /\ response.status = 200
        /\ {response.body[i].date : i \in 1..Len(response.body)} = EnergyLogDates
        /\ Len(response.body) = Cardinality(EnergyLogDates)
        /\ \A i \in 1..Len(response.body) :
              /\ response.body[i].daily_expenses
                    = SumAmountsAt(ExpensePositionsOn(response.body[i].date))
              /\ response.body[i].expense_count
                    = Cardinality(ExpensePositionsOn(response.body[i].date))

\* C11's case: an energy log on one date, which has an expense, and an
\* expense on a date without an energy log.
C11_Witness ==
    /\ EnergySpendingAnswered
    /\ Len(response.body) = 1
    /\ response.body[1].expense_count = 1
    /\ \E i \in 1..Len(transactions) :
          transactions[i].date \notin EnergyLogDates /\ transactions[i].type = "expense"

TimeMoneyAnswered == response.op = "get_time_money_correlation"

InterruptionDates == {DateOf(ParseTime(interruptions[i].time)) : i \in 1..Len(interruptions)}

\* C12: the time-money correlation emits one record for each date that has
\* an activity or a transaction and for no other date; a date with only
\* activities has zero money fields, a date with only transactions has zero
\* time fields, and a date with only interruptions has no record.
C12_TimeMoneyRecordsFollowActivitiesAndTransactions ==
    TimeMoneyAnswered =>
        /\ response.status = 200
        /\ {response.body[i].date : i \in 1..Len(response.body)}
              = ActivityDates \cup TransactionDates
        /\ Len(response.body) = Cardinality(ActivityDates \cup TransactionDates)
        /\ \A i \in 1..Len(response.body) :
              /\ response.body[i].date \notin TransactionDates
                    => /\ response.body[i].daily_expenses = 0
                       /\ response.body[i].daily_income = 0
              /\ response.body[i].date \notin ActivityDates
                    => /\ response.body[i].activity_count = 0
                       /\ response.body[i].total_hours = 0

\* C12's case: one date with an activity only, one with a transaction only
\* and one with an interruption only.
C12_Witness ==
    /\ TimeMoneyAnswered
    /\ Len(response.body) = 2
    /\ ActivityDates \cap TransactionDates = {}
    /\ InterruptionDates # {}
    /\ InterruptionDates \cap (ActivityDates \cup TransactionDates) = {}

(***************************************************************************)
(* Habit logs and the habit streak (routers/planner.py).  A request may    *)
(* meet a failure of the store at one of its calls: `fault` names the call *)
(* that raises, "none" when every call succeeds.                           *)
(***************************************************************************)
\* POST /planner/habits: the streak columns of a new habit read 0.
create_habit ==
    LET row == [id |-> Len(habits) + 1, current_streak |-> 0, best_streak |-> 0]
    IN  /\ habits' = Append(habits, row)
        /\ response' = HttpOk("create_habit", row)
        /\ UNCHANGED <<now, activities, interruptions, energy_logs, transactions, tasks,
                       habit_logs, in_flight, goals>>

\* .upsert(data, on_conflict="habit_id,date"): the row of that habit and date
\* is replaced, or the row is added.
UpsertHabitLog(rows, row) ==
    IF \E i \in 1..Len(rows) : rows[i].habit_id = row.habit_id /\ rows[i].date = row.date
    THEN [i \in 1..Len(rows) |->
             IF rows[i].habit_id = row.habit_id /\ rows[i].date = row.date THEN row ELSE rows[i]]
    ELSE Append(rows, row)

\* The dates of the completed logs of a habit, .order("date", desc=True).
CompletedDatesDesc(log_rows, habit_id) ==
    SortedDesc({log_rows[i].date : i \in {j \in 1..Len(log_rows) :
                    log_rows[j].habit_id = habit_id /\ log_rows[j].completed}})

\* Whether a call of update_habit_streak raises inside its try block: the
\* select of the logs, the select of the habit (.single() raises when there
\* is no such habit) or the update of the habit.  With no completed log the
\* function returns before it reads the habit.
HabitStreakRaises(habit_rows, log_rows, habit_id, fault) ==
    \/ fault = "read_logs"
    \/ /\ CompletedDatesDesc(log_rows, habit_id) # <<>>
       /\ \/ fault \in {"read_habit", "write_streak"}
          \/ ~\E i \in 1..Len(habit_rows) : habit_rows[i].id = habit_id

\* The habits table after update_habit_streak: current_streak is the walk
\* from today over the completed dates, best_streak the larger of the stored
\* best_streak and it.  An exception leaves the table as it was.
update_habit_streak(habit_rows, log_rows, habit_id, today, fault) ==
    LET logs == CompletedDatesDesc(log_rows, habit_id)
        current_streak == CurrentStreakFrom(logs, today, 1)
    IN  IF logs = <<>> \/ HabitStreakRaises(habit_rows, log_rows, habit_id, fault)
        THEN habit_rows
        ELSE [i \in 1..Len(habit_rows) |->
                 IF habit_rows[i].id = habit_id
                 THEN [habit_rows[i] EXCEPT
                          !.current_streak = current_streak,
                          !.best_streak = Max(habit_rows[i].best_streak, current_streak)]
                 ELSE habit_rows[i]]

\* Mutant: an exception of update_habit_streak reaches log_habit's handler.
LogHabitStatusPropagating(upsert_raised, streak_raised) ==
    IF upsert_raised \/ streak_raised THEN 500 ELSE 200

\* The status log_habit answers with: update_habit_streak swallows its own
\* exceptions, so only the upsert can fail the request.
LogHabitStatus(upsert_raised, streak_raised) ==
    IF upsert_raised THEN 500 ELSE 200

\* POST /planner/habits/log.  The response also records the request and the
\* call that failed.
log_habit(habit_id, date, completed, fault) ==
    LET row == [habit_id |-> habit_id, date |-> date, completed |-> completed, count |-> 1]
        upsert_raised == fault = "upsert"
        stored == UpsertHabitLog(habit_logs, row)
        streak_raised == /\ ~upsert_raised
                         /\ completed
                         /\ HabitStreakRaises(habits, stored, habit_id, fault)
        status == LogHabitStatus(upsert_raised, streak_raised)
    IN  /\ habit_logs' = IF upsert_raised THEN habit_logs ELSE stored
        /\ habits' = IF upsert_raised \/ ~completed
                     THEN habits
                     ELSE update_habit_streak(habits, stored, habit_id, Today, fault)
        /\ response' = [op |-> "log_habit", status |-> status, at |-> now,
                        body |-> IF status = 200 THEN row ELSE <<>>,
                        request |-> row, fault |-> fault]
        /\ UNCHANGED <<now, activities, interruptions, energy_logs, transactions, tasks,
                       in_flight, goals>>

\* The calls of log_habit that can fail.
HabitFaults == {"none", "upsert", "read_logs", "read_habit", "write_streak"}

\* Yesterday and today.
HabitDates == {StartDay - 1, StartDay}

InitHabit ==
    /\ now = StartDay * MinutesPerDay + 12 * MinutesPerHour
    /\ EmptyStore

NextHabit ==
    \/ /\ Len(habits) < MaxHabits
       /\ create_habit
    \/ \E i \in 1..Len(habits), date \in HabitDates, completed \in BOOLEAN, fault \in HabitFaults :
          LET has_row == \E j \in 1..Len(habit_logs) :
                            habit_logs[j].habit_id = habits[i].id /\ habit_logs[j].date = date
          IN  /\ has_row \/ Len(habit_logs) < MaxHabitLogs
              /\ log_habit(habits[i].id, date, completed, fault)

SpecHabit == InitHabit /\ [][NextHabit]_vars

\* C13: whenever the upsert of log_habit succeeds, log_habit answers with
\* the stored log, whichever step of update_habit_streak fails.
C13_StreakFailureNeverFailsLogHabit ==
    (response.op = "log_habit" /\ response.fault # "upsert") =>
        /\ response.status = 200
        /\ response.body = response.request
        /\ \E i \in 1..Len(habit_logs) : habit_logs[i] = response.body

\* C13's case: a completed log of today is stored and answered while the
\* write of the streak failed, so the habit still shows no streak.
C13_Witness ==
    /\ response.op = "log_habit"
    /\ response.fault = "write_streak"
    /\ response.status = 200
    /\ response.request.completed
    /\ response.request.date = response.at \div MinutesPerDay
    /\ \E i \in 1..Len(habits) :
          habits[i].id = response.request.habit_id /\ habits[i].current_streak = 0

(***************************************************************************)
(* POST /energy under concurrent requests (routers/energy.py).  The        *)
(* handler first selects the log of the date and then, in a second call of *)
(* the store, updates it or inserts a new one; other requests may run in   *)
(* between.                                                                *)
(***************************************************************************)
\* The first call: existing = select ... .eq("date", log_date).  The request
\* keeps what it saw.
create_energy_log_select(id, date, energy_level, stress_level) ==
    /\ \A p \in in_flight : p.id # id
    /\ in_flight' = in_flight \cup
          {[id |-> id, date |-> date, energy_level |-> energy_level,
            stress_level |-> stress_level,
            existing |-> \E i \in 1..Len(energy_logs) : energy_logs[i].date = date]}
    /\ UNCHANGED <<now, activities, interruptions, energy_logs, transactions, tasks,
                   habits, habit_logs, response, goals>>

\* The second call: the update of the rows of the date if the select found
\* one, the insert of a new row otherwise.  `accepted` is what the store
\* answers to the insert: src/ does not say whether the table refuses a
\* second row of a date; a refusal raises and the handler answers 500.
create_energy_log_write(p, accepted) ==
    LET row == [date |-> p.date, energy_level |-> p.energy_level,
                stress_level |-> p.stress_level]
    IN  /\ in_flight' = in_flight \ {p}
        /\ IF p.existing
           THEN /\ energy_logs' = [i \in 1..Len(energy_logs) |->
                                      IF energy_logs[i].date = p.date THEN row
                                      ELSE energy_logs[i]]
                /\ response' = HttpOk("create_energy_log", row)
           ELSE IF accepted
           THEN /\ energy_logs' = Append(energy_logs, row)
                /\ response' = HttpOk("create_energy_log", row)
           ELSE /\ UNCHANGED energy_logs
                /\ response' = HttpError("create_energy_log", 500)
        /\ UNCHANGED <<now, activities, interruptions, transactions, tasks, habits, habit_logs, goals>>

InitEnergy ==
    /\ now = StartDay * MinutesPerDay + 12 * MinutesPerHour
    /\ EmptyStore

NextEnergy ==
    \/ \E id \in 1..MaxInFlight, date \in CrossDates, energy_level \in {2, 4} :
          /\ Len(energy_logs) + Cardinality(in_flight) < MaxEnergyLogs
          /\ create_energy_log_select(id, date, energy_level, 3)
    \/ \E p \in in_flight :
          \E accepted \in IF \E i \in 1..Len(energy_logs) : energy_logs[i].date = p.date
                          THEN BOOLEAN ELSE {TRUE} :
             create_energy_log_write(p, accepted)

SpecEnergy == InitEnergy /\ [][NextEnergy]_vars

\* C14: after any interleaving of create_energy_log requests the store holds
\* at most one energy log per date, and a request for a date that has a log
\* updates that log: it is answered with the log, not with an error.
C14_OneEnergyLogPerDate ==
    /\ \A i, j \in 1..Len(energy_logs) :
          energy_logs[i].date = energy_logs[j].date => i = j
    /\ response.op = "create_energy_log" => response.status = 200

(***************************************************************************)
(* Order of the category breakdown.                                        *)
(***************************************************************************)
\* The position in the store of the first activity of a category.
FirstEncounter(category) ==
    SetMin({k \in 1..Len(activities) : activities[k].category = category})

\* C15: the category breakdown is in descending order of total minutes, and
\* of two categories with equal totals the one first encountered in the
\* input comes first.
C15_BreakdownSortedDescendingStable ==
    BreakdownAnswered =>
        \A i, j \in 1..Len(AnsweredBreakdown) :
            i < j =>
                /\ AnsweredBreakdown[i].total_minutes >= AnsweredBreakdown[j].total_minutes
                /\ AnsweredBreakdown[i].total_minutes = AnsweredBreakdown[j].total_minutes
                      => FirstEncounter(AnsweredBreakdown[i].category)
                            < FirstEncounter(AnsweredBreakdown[j].category)

\* C15's case: three categories, the one with the largest total encountered
\* last and answered first, the other two tied.
C15_Witness ==
    /\ BreakdownAnswered
    /\ Len(AnsweredBreakdown) = 3
    /\ AnsweredBreakdown[1].total_minutes > AnsweredBreakdown[2].total_minutes
    /\ AnsweredBreakdown[2].total_minutes = AnsweredBreakdown[3].total_minutes
    /\ FirstEncounter(AnsweredBreakdown[1].category)
          > FirstEncounter(AnsweredBreakdown[3].category)

(***************************************************************************)
(* generate_insights on activities in several zones, hours and days.       *)
(***************************************************************************)
MaxPatternActivities == 3
MaxPatternInterruptions == 4

ZonedActivity(category, day, hour, minutes, suffix) ==
    [category |-> category,
     start_time |-> [wall |-> day * MinutesPerDay + hour * MinutesPerHour, suffix |-> suffix],
     end_time |-> [wall |-> day * MinutesPerDay + hour * MinutesPerHour + minutes, suffix |-> suffix]]

\* Two focus sessions of equal length in the morning and the last hour of one
\* day, two of a minute each on the next two days written with a UTC offset,
\* a short and a long rest and a social half hour.
PatternActivities ==
    {ZonedActivity("Work", StartDay, 10, 20, "Z"),
     ZonedActivity("Coding", StartDay, 23, 20, "Z"),
     ZonedActivity("Study", StartDay + 1, 10, 1, "+02:00"),
     ZonedActivity("Reading", StartDay + 2, 9, 1, "-05:00"),
     ZonedActivity("Rest", StartDay, 12, 5, "Z"),
     ZonedActivity("Rest", StartDay, 14, 80, "Z"),
     ZonedActivity("Social", StartDay, 13, 30, "Z")}

InterruptionAt(hour) ==
    [time |-> [wall |-> StartDay * MinutesPerDay + hour * MinutesPerHour, suffix |-> "Z"],
     duration_minutes |-> Absent, type |-> "Phone"]

\* Up to MaxPatternInterruptions interruptions in hour 10 followed by up to
\* two in hour 11.
PatternInterruptions ==
    {[i \in 1..(k + j) |-> IF i <= k THEN InterruptionAt(10) ELSE InterruptionAt(11)] :
        k \in 0..MaxPatternInterruptions, j \in 0..2}

InitPatterns ==
    /\ now = (StartDay + 2) * MinutesPerDay + 12 * MinutesPerHour
    /\ activities \in SeqsUpTo(PatternActivities, MaxPatternActivities)
    /\ interruptions \in PatternInterruptions
    /\ energy_logs = <<>>
    /\ transactions = <<>>
    /\ tasks = <<>>
    /\ habits = <<>>
    /\ habit_logs = <<>>
    /\ in_flight = {}
    /\ response = NoResponse
    /\ goals = <<>>

NextPatterns == call_generate_insights

SpecPatterns == InitPatterns /\ [][NextPatterns]_vars

\* The focus activities generate_insights was called with.
FocusGiven == SelectSeq(activities, LAMBDA a : a.category \in FocusCategories)

\* C16 as stated: for every non-empty activity list the consistency_score
\* generate_insights returns is at least 0 and strictly less than 1.
C16_ConsistencyScoreBelowOne ==
    (InsightsReturned /\ activities # <<>>) =>
        /\ response.body.value.consistency_score >= 0
        /\ response.body.value.consistency_score < 100

\* C16 amended: for every non-empty activity list the consistency_score
\* generate_insights returns is at least 0 and at most 1.
C16_ConsistencyScoreInUnitInterval ==
    (InsightsReturned /\ activities # <<>>) =>
        /\ response.body.value.consistency_score >= 0
        /\ response.body.value.consistency_score <= 100

\* Three focus days of 20, 1 and 1 minutes, where std_dev exceeds
\* avg_focus + 1, and the score returned for them is 0.
C16_Witness ==
    /\ InsightsReturned
    /\ Cardinality(FocusDays(FocusGiven)) = 3
    /\ Spread2(FocusGiven) > SpreadDen(FocusGiven) * SpreadDen(FocusGiven)
    /\ response.body.value.consistency_score = 0

\* Two focus days of equal totals are answered with a score of exactly 1.
C16_EqualDaysScoreOne ==
    /\ InsightsReturned
    /\ Cardinality(FocusDays(FocusGiven)) = 2
    /\ Spread2(FocusGiven) = 0
    /\ response.body.value.consistency_score = 100

\* The hour a focus activity starts in, as written in its start_time.
StartHour(a) == HourOf(ParseTime(a.start_time))

\* The position of the first focus activity given that starts in hour h.
FirstStartIn(h) == SetMin({i \in 1..Len(FocusGiven) : StartHour(FocusGiven[i]) = h})

FocusHoursGiven == {StartHour(FocusGiven[i]) : i \in 1..Len(FocusGiven)}

\* C17: with at least one focus activity, the peak window names the start
\* hour with the most accumulated focus minutes, the hour met first among
\* those that tie, as "HH:00 - HH+1:00" where the hour after 23 is 00.
C17_PeakWindowIsFirstMaximalHour ==
    (InsightsReturned /\ FocusGiven # <<>>) =>
        LET window == response.body.value.peak_focus_window
        IN  /\ Len(window) = 3
            /\ window[2] \in FocusHoursGiven
            /\ \A h \in FocusHoursGiven :
                   \/ HourFocus(FocusGiven, h) < HourFocus(FocusGiven, window[2])
                   \/ /\ HourFocus(FocusGiven, h) = HourFocus(FocusGiven, window[2])
                      /\ FirstStartIn(window[2]) <= FirstStartIn(h)
            /\ window[3] = IF window[2] = 23 THEN 0 ELSE window[2] + 1

\* Hours 23 and 10 tie, hour 23 was met first and is answered "23:00 - 00:00".
C17_Witness ==
    /\ InsightsReturned
    /\ {10, 23} \subseteq FocusHoursGiven
    /\ HourFocus(FocusGiven, 10) = HourFocus(FocusGiven, 23)
    /\ FirstStartIn(23) < FirstStartIn(10)
    /\ response.body.value.peak_focus_window = <<"Your focus is strongest between", 23, 0>>

\* The hour of day, in UTC, of the instant a focus activity starts at.
UtcStartHour(a) == (Instant(ParseTime(a.start_time)) % MinutesPerDay) \div MinutesPerHour

UtcHoursGiven == {UtcStartHour(FocusGiven[i]) : i \in 1..Len(FocusGiven)}

\* The focus minutes given that start in hour h of the UTC day.
UtcHourFocus(h) ==
    TotalMinutes(SelectSeq(FocusGiven, LAMBDA a : UtcStartHour(a) = h))

FirstUtcStartIn(h) == SetMin({i \in 1..Len(FocusGiven) : UtcStartHour(FocusGiven[i]) = h})

\* C18: the hour a focus activity is bucketed by for the peak window is the
\* UTC hour of its start_time, whether the timestamp is written with "Z" or
\* with an explicit offset: the window names the first maximal UTC hour.
C18_PeakWindowBucketsByUtcHour ==
    (InsightsReturned /\ FocusGiven # <<>>) =>
        LET window == response.body.value.peak_focus_window
        IN  /\ Len(window) = 3
            /\ window[2] \in UtcHoursGiven
            /\ \A h \in UtcHoursGiven :
                   \/ UtcHourFocus(h) < UtcHourFocus(window[2])
                   \/ /\ UtcHourFocus(h) = UtcHourFocus(window[2])
                      /\ FirstUtcStartIn(window[2]) <= FirstUtcStartIn(h)

\* The Rest activities generate_insights was called with.
RestGiven == SelectSeq(activities, LAMBDA a : a.category = "Rest")

\* C19: balance_ratio, returned to 2 decimal places, is the focus minutes
\* divided by the focus and Rest minutes together, lies between 0 and 1
\* inclusive, and is 0.5 whenever that denominator is 0.
C19_BalanceRatioIsFocusShare ==
    (InsightsReturned /\ activities # <<>>) =>
        LET ratio == response.body.value.balance_ratio
            focus == TotalMinutes(FocusGiven)
            both == TotalMinutes(FocusGiven) + TotalMinutes(RestGiven)
        IN  /\ ratio >= 0
            /\ ratio <= 100
            /\ both = 0 => ratio = 50
            /\ both > 0 =>
                   /\ 2 * (100 * focus - ratio * both) <= both
                   /\ 2 * (ratio * both - 100 * focus) <= both

\* Only Social activities were given, and the ratio returned is 0.5.
C19_Witness ==
    /\ InsightsReturned
    /\ activities # <<>>
    /\ \A i \in 1..Len(activities) : activities[i].category = "Social"
    /\ response.body.value.balance_ratio = 50

\* Focus and rest were both given, and the ratio returned is not a whole one.
C19_MixedRatio ==
    /\ InsightsReturned
    /\ FocusGiven # <<>>
    /\ RestGiven # <<>>
    /\ response.body.value.balance_ratio \notin {0, 50, 100}

AddRest == "Consider adding more rest time to your schedule."
MoreFocus == "You might benefit from more focused work blocks."
FewerInterruptions == "Try scheduling deep work during hours with fewer interruptions."
MoreConsistent == "A more consistent schedule might help you find better focus."
KeepTracking == "Keep tracking to discover more patterns."

\* The rules of the suggestion, on the lists generate_insights was given.
BalanceAbove80 ==
    /\ TotalMinutes(FocusGiven) + TotalMinutes(RestGiven) > 0
    /\ 10 * TotalMinutes(FocusGiven) > 8 * (TotalMinutes(FocusGiven) + TotalMinutes(RestGiven))

BalanceBelow30 ==
    /\ TotalMinutes(FocusGiven) + TotalMinutes(RestGiven) > 0
    /\ 10 * TotalMinutes(FocusGiven) < 3 * (TotalMinutes(FocusGiven) + TotalMinutes(RestGiven))

SomeHourAboveThree ==
    \E h \in 0..(HoursPerDay - 1) :
        Cardinality({i \in 1..Len(interruptions) : HourOf(ParseTime(interruptions[i].time)) = h}) > 3

\* C20: for a non-empty activity list the suggestion is never empty; it is
\* the sentences whose rule fires and no others, in the order balance
\* (above 0.8, or else below 0.3, never both), an hour with more than 3
\* interruptions, consistency below 0.5; the default sentence is given if
\* and only if no rule fires.
C20_SuggestionIsFiredRulesInOrder ==
    (InsightsReturned /\ activities # <<>>) =>
        LET suggestion == response.body.value.suggestion
            fired == (IF BalanceAbove80 THEN <<AddRest>>
                      ELSE IF BalanceBelow30 THEN <<MoreFocus>> ELSE <<>>)
                     \o (IF SomeHourAboveThree THEN <<FewerInterruptions>> ELSE <<>>)
                     \o (IF ConsistencyLow(FocusGiven) THEN <<MoreConsistent>> ELSE <<>>)
        IN  /\ suggestion # <<>>
            /\ fired # <<>> => suggestion = fired
            /\ fired = <<>> <=> suggestion = <<KeepTracking>>
            /\ ~(\E i, j \in 1..Len(suggestion) :
                    suggestion[i] = AddRest /\ suggestion[j] = MoreFocus)

\* All three rules fire: the suggestion is the three sentences in order.
C20_Witness ==
    /\ InsightsReturned
    /\ BalanceAbove80
    /\ SomeHourAboveThree
    /\ ConsistencyLow(FocusGiven)
    /\ response.body.value.suggestion = <<AddRest, FewerInterruptions, MoreConsistent>>

\* No rule fires on a non-empty list: the default sentence alone.
C20_DefaultSentence ==
    /\ InsightsReturned
    /\ activities # <<>>
    /\ response.body.value.suggestion = <<KeepTracking>>

\* The low-balance sentence is followed by the consistency sentence.
C20_MoreFocusThenConsistent ==
    /\ InsightsReturned
    /\ response.body.value.suggestion = <<MoreFocus, MoreConsistent>>

(***************************************************************************)
(* When the energy-spending insight is given.                              *)
(***************************************************************************)
\* The positions of the stored low-energy and high-energy logs; every
\* stored row is inside the window of 30 days.
LowEnergyLogs == {i \in 1..Len(energy_logs) : energy_logs[i].energy_level <= 2}

HighEnergyLogs == {i \in 1..Len(energy_logs) : energy_logs[i].energy_level >= 4}

\* The cents spent on the dates of the energy logs at the positions given.
SpentOnDatesOf(positions) ==
    LET spent == {i \in 1..Len(transactions) :
                     /\ transactions[i].type = "expense"
                     /\ \E k \in positions : energy_logs[k].date = transactions[i].date}
    IN  SumAmountsAt(spent)

\* The mean expense of a low-energy day is more than 1.2 times the mean
\* expense of a high-energy day.
LowDaysCostMore ==
    /\ LowEnergyLogs # {}
    /\ HighEnergyLogs # {}
    /\ 10 * SpentOnDatesOf(LowEnergyLogs) * Cardinality(HighEnergyLogs)
          > 12 * SpentOnDatesOf(HighEnergyLogs) * Cardinality(LowEnergyLogs)

EnergySpendingEmitted ==
    /\ response.status = 200
    /\ \E i \in 1..Len(response.body) : response.body[i].type = "energy_spending"

\* C21: get_cross_domain_insights gives the energy-spending insight if and
\* only if there is a low-energy log (level <= 2) and a high-energy log
\* (level >= 4) and the mean expense per low-energy day is strictly more
\* than 1.2 times the mean expense per high-energy day; days of level 3
\* count for neither mean.
C21_EnergySpendingInsightIffLowDaysCostMore ==
    response.op = "get_cross_domain_insights" =>
        (EnergySpendingEmitted <=> LowDaysCostMore)

(***************************************************************************)
(* The interruption-task correlation, and the order of the records of the  *)
(* three correlations.                                                     *)
(***************************************************************************)
InterruptionTaskRecord(task_rows, interruption_rows, date) ==
    LET mine == SelectSeq(task_rows, LAMBDA t : t.due_date = IntVal(date))
        completed == SelectSeq(mine, LAMBDA t : t.status = "completed")
    IN  [task_date |-> date,
         total_tasks |-> Len(mine),
         completed_tasks |-> Len(completed),
         interruption_count |->
             Len(SelectSeq(interruption_rows, LAMBDA r : DateOf(ParseTime(r.time)) = date)),
         completion_rate |-> RoundHalfEven(1000 * Len(completed), Len(mine))]

\* GET /cross-domain/interruption-tasks: the tasks with a due date create
\* the buckets, the interruptions count into the bucket of their date;
\* completion_rate is in tenths of a percent.
get_interruption_task_correlation(days) ==
    LET start_date == Today - days
        task_rows == SelectSeq(tasks, LAMBDA t : t.due_date.tag = "int" /\ t.due_date.v >= start_date)
        interruption_rows == FetchInterruptionsSince(start_date * MinutesPerDay)
        sorted_dates == SortedAsc({task_rows[i].due_date.v : i \in 1..Len(task_rows)})
    IN  /\ response' =
              IF \E i \in 1..Len(interruption_rows) : ~Parses(interruption_rows[i].time)
              THEN HttpError("get_interruption_task_correlation", 500)
              ELSE HttpOk("get_interruption_task_correlation",
                          [i \in 1..Len(sorted_dates) |->
                              InterruptionTaskRecord(task_rows, interruption_rows,
                                                     sorted_dates[i])])
        /\ UNCHANGED <<now, activities, interruptions, energy_logs, transactions, tasks,
                       habits, habit_logs, in_flight, goals>>

\* The rows of activities, transactions, tasks and interruptions together.
MaxOrderRows == 3

OrderRows == Len(activities) + Len(transactions) + Len(tasks) + Len(interruptions)

InitOrder ==
    /\ now = StartDay * MinutesPerDay + 18 * MinutesPerHour
    /\ EmptyStore

\* Rows of yesterday and today are stored in any order and number, then the
\* correlations are asked for.
NextOrder ==
    \/ \E date \in CrossDates : create_energy_log(date, 2, 3)
    \/ \E date \in CrossDates :
          /\ OrderRows < MaxOrderRows
          /\ create_transaction(1000, "expense", date)
    \/ \E date \in CrossDates :
          /\ OrderRows < MaxOrderRows
          /\ create_activity("Work", NoonOf(date), [NoonOf(date) EXCEPT !.wall = @ + 90], NullStr)
    \/ \E date \in CrossDates :
          /\ OrderRows < MaxOrderRows
          /\ create_task(IntVal(date))
    \/ \E date \in CrossDates :
          /\ OrderRows < MaxOrderRows
          /\ create_interruption(NoonOf(date), IntVal(5), "Phone")
    \/ \E days \in DaysParams : get_energy_spending_correlation(days)
    \/ \E days \in DaysParams : get_time_money_correlation(days)
    \/ \E days \in DaysParams : get_interruption_task_correlation(days)

SpecOrder == InitOrder /\ [][NextOrder]_vars

\* The dates of the records of a correlation that was answered.
AnsweredDates ==
    IF response.op = "get_interruption_task_correlation"
    THEN [i \in 1..Len(response.body) |-> response.body[i].task_date]
    ELSE [i \in 1..Len(response.body) |-> response.body[i].date]

\* C22: the records of the time-money, the energy-spending and the
\* interruption-task correlation are strictly ascending by date, so that
\* every date has at most one record, whatever the order and the number of
\* the rows stored.
C22_CorrelationsStrictlyAscendingByDate ==
    (/\ response.op \in {"get_time_money_correlation", "get_energy_spending_correlation",
                         "get_interruption_task_correlation"}
     /\ response.status = 200) =>
        \A i, j \in 1..Len(AnsweredDates) : i < j => AnsweredDates[i] < AnsweredDates[j]

\* Three tasks stored newest first, two of them due the same day, are
\* answered with two records.
C22_Witness ==
    /\ response.op = "get_interruption_task_correlation"
    /\ response.status = 200
    /\ Len(tasks) = 3
    /\ tasks[1].due_date.v > tasks[2].due_date.v
    /\ tasks[3].due_date = tasks[1].due_date
    /\ Len(response.body) = 2

(***************************************************************************)
(* generate_insights on rows with malformed timestamps.                    *)
(***************************************************************************)
MaxParseActivities == 2
MaxParseInterruptions == 1

NotATime == "not a time"

\* A focus session, a rest and a social hour with well-formed times, and
\* each of them with a start_time or an end_time that is not ISO.
ParseActivities ==
    {ZonedActivity(category, StartDay, 10, 30, "Z") : category \in {"Work", "Rest", "Social"}}
        \cup {[ZonedActivity(category, StartDay, 10, 30, "Z") EXCEPT !.start_time.suffix = NotATime] :
                 category \in {"Work", "Social"}}
        \cup {[ZonedActivity(category, StartDay, 10, 30, "Z") EXCEPT !.end_time.suffix = NotATime] :
                 category \in {"Work", "Rest"}}

ParseInterruptions ==
    {InterruptionAt(10), [InterruptionAt(10) EXCEPT !.time.suffix = NotATime]}

InitParse ==
    /\ now = StartDay * MinutesPerDay + 12 * MinutesPerHour
    /\ activities \in SeqsUpTo(ParseActivities, MaxParseActivities)
    /\ interruptions \in SeqsUpTo(ParseInterruptions, MaxParseInterruptions)
    /\ energy_logs = <<>>
    /\ transactions = <<>>
    /\ tasks = <<>>
    /\ habits = <<>>
    /\ habit_logs = <<>>
    /\ in_flight = {}
    /\ response = NoResponse
    /\ goals = <<>>

NextParse == call_generate_insights

SpecParse == InitParse /\ [][NextParse]_vars

\* The activities given whose start_time or end_time is malformed.
MalformedActivities ==
    {i \in 1..Len(activities) :
        ~Parses(activities[i].start_time) \/ ~Parses(activities[i].end_time)}

MalformedInterruptions == {i \in 1..Len(interruptions) : ~Parses(interruptions[i].time)}

\* C23 as stated: generate_insights given a non-empty activity list raises
\* whenever any activity, of any category, or any interruption carries a
\* malformed timestamp.
C23_AnyMalformedTimestampRaises ==
    (/\ response.op = "generate_insights"
     /\ activities # <<>>
     /\ (MalformedActivities # {} \/ MalformedInterruptions # {})) =>
        response.body.raised

\* C23 amended: generate_insights given a non-empty activity list raises
\* whenever any activity of a focus category or of category Rest, or any
\* interruption, carries a malformed timestamp; it returns no result
\* computed while skipping a malformed timestamp of such a row.
C23_MalformedFocusRestOrInterruptionRaises ==
    (/\ response.op = "generate_insights"
     /\ activities # <<>>
     /\ \/ \E i \in MalformedActivities :
              activities[i].category \in FocusCategories \cup {"Rest"}
        \/ MalformedInterruptions # {}) =>
        response.body.raised

\* A rest with a malformed end_time, every other time well-formed: raised.
C23_Witness ==
    /\ response.op = "generate_insights"
    /\ MalformedInterruptions = {}
    /\ MalformedActivities # {}
    /\ \A i \in MalformedActivities : activities[i].category = "Rest"
    /\ response.body.raised

(***************************************************************************)
(* The summary over interruptions logged with and without a duration.      *)
(***************************************************************************)
MaxSummaryInterruptions == 2

InitSummary ==
    /\ now = StartDay * MinutesPerDay + 12 * MinutesPerHour
    /\ EmptyStore

NextSummary ==
    \/ \E category \in {"Work", "Rest"} :
          /\ activities = <<>>
          /\ create_activity(category, CategoryStart, [CategoryStart EXCEPT !.wall = @ + 30], NullStr)
    \/ \E duration_minutes \in {Absent, IntVal(10)}, type \in {"Phone", "Noise"} :
          /\ Len(interruptions) < MaxSummaryInterruptions
          /\ create_interruption(CategoryStart, duration_minutes, type)
    \/ \E days \in DaysParams : get_analytics_summary(days)

SpecSummary == InitSummary /\ [][NextSummary]_vars

\* The minutes the stored interruptions add up to when one without a
\* duration counts as 5.
InterruptionMinutesWithDefault ==
    SumSeq([i \in 1..Len(interruptions) |->
               IF interruptions[i].duration_minutes.tag = "int"
               THEN interruptions[i].duration_minutes.v
               ELSE 5])

\* C24: get_analytics_summary counts an interruption created without
\* duration_minutes as 5 minutes of total_interruption_minutes and answers
\* with the summary, not with an error.
C24_MissingDurationCountsFiveMinutes ==
    response.op = "get_analytics_summary" =>
        /\ response.status = 200
        /\ response.body.total_interruption_minutes = 10 * InterruptionMinutesWithDefault

(***************************************************************************)
(* The stored streak of a habit against its logs.                          *)
(***************************************************************************)
HasCompletedLog(habit_id, day) ==
    \E i \in 1..Len(habit_logs) :
        /\ habit_logs[i].habit_id = habit_id
        /\ habit_logs[i].date = day
        /\ habit_logs[i].completed

\* The number of consecutive calendar days ending today that have a
\* completed log of the habit.
CompletedRunEndingToday(habit_id) ==
    CHOOSE k \in 0..Len(habit_logs) :
        /\ \A d \in (Today - k + 1)..Today : HasCompletedLog(habit_id, d)
        /\ ~HasCompletedLog(habit_id, Today - k)

\* C25: right after every successful log_habit call, with completed true or
\* false and for any date, the stored current_streak of the habit is the
\* number of consecutive calendar days ending today that have a completed
\* log of it.  Calls that met no failure of the store are looked at.
C25_CurrentStreakFollowsEveryLog ==
    (response.op = "log_habit" /\ response.status = 200 /\ response.fault = "none") =>
        \A i \in 1..Len(habits) :
            habits[i].id = response.request.habit_id =>
                habits[i].current_streak = CompletedRunEndingToday(habits[i].id)

(***************************************************************************)
(* log_habit under concurrent requests (routers/planner.py).  A request    *)
(* that logs a completed day makes four calls of the store, and other      *)
(* requests may run between them: the upsert of the log, the select of the *)
(* completed logs, the select of best_streak and the update of the habit.  *)
(***************************************************************************)
\* The upsert of a completed log (planner.py:499-503).
log_habit_upsert(id, habit_id, date) ==
    /\ \A p \in in_flight : p.id # id
    /\ habit_logs' = UpsertHabitLog(habit_logs,
                        [habit_id |-> habit_id, date |-> date, completed |-> TRUE, count |-> 1])
    /\ in_flight' = in_flight \cup
          {[id |-> id, habit_id |-> habit_id, date |-> date, pc |-> "read_logs",
            current_streak |-> 0, best_streak |-> 0]}
    /\ UNCHANGED <<now, activities, interruptions, energy_logs, transactions, tasks,
                   habits, response, goals>>

\* The select of the completed logs and the walk from today over them
\* (planner.py:551-575).
update_habit_streak_read_logs(p) ==
    /\ p.pc = "read_logs"
    /\ in_flight' = (in_flight \ {p}) \cup
          {[p EXCEPT !.pc = "read_habit",
                     !.current_streak =
                         CurrentStreakFrom(CompletedDatesDesc(habit_logs, p.habit_id), Today, 1)]}
    /\ UNCHANGED <<now, activities, interruptions, energy_logs, transactions, tasks,
                   habits, habit_logs, response, goals>>

\* The select of the habit's best_streak and the max() with the streak the
\* request counted (planner.py:578-586).
update_habit_streak_read_habit(p) ==
    /\ p.pc = "read_habit"
    /\ \E i \in 1..Len(habits) :
          /\ habits[i].id = p.habit_id
          /\ in_flight' = (in_flight \ {p}) \cup
                {[p EXCEPT !.pc = "write",
                           !.best_streak = Max(habits[i].best_streak, p.current_streak)]}
    /\ UNCHANGED <<now, activities, interruptions, energy_logs, transactions, tasks,
                   habits, habit_logs, response, goals>>

\* The update of the habit with what the request computed (planner.py:589-591)
\* and the answer of log_habit.
update_habit_streak_write(p) ==
    /\ p.pc = "write"
    /\ habits' = [i \in 1..Len(habits) |->
                     IF habits[i].id = p.habit_id
                     THEN [habits[i] EXCEPT !.current_streak = p.current_streak,
                                            !.best_streak = p.best_streak]
                     ELSE habits[i]]
    /\ in_flight' = in_flight \ {p}
    /\ response' = HttpOk("log_habit", [habit_id |-> p.habit_id, date |-> p.date,
                                        completed |-> TRUE, count |-> 1])
    /\ UNCHANGED <<now, activities, interruptions, energy_logs, transactions, tasks, habit_logs, goals>>

InitHabitRace ==
    /\ now = StartDay * MinutesPerDay + 12 * MinutesPerHour
    /\ EmptyStore

\* One habit, and requests that log yesterday or today as completed.
NextHabitRace ==
    \/ /\ habits = <<>>
       /\ create_habit
    \/ \E id \in 1..MaxInFlight, date \in HabitDates :
          /\ habits # <<>>
          /\ log_habit_upsert(id, habits[1].id, date)
    \/ \E p \in in_flight : update_habit_streak_read_logs(p)
    \/ \E p \in in_flight : update_habit_streak_read_habit(p)
    \/ \E p \in in_flight : update_habit_streak_write(p)

SpecHabitRace == InitHabitRace /\ [][NextHabitRace]_vars

\* C26: under any interleaving of log_habit requests for one habit, the
\* stored best_streak never decreases and, after each streak write, is at
\* least the stored current_streak.
C26_BestStreakNeverDecreases ==
    [][\A i \in 1..Len(habits) :
          /\ habits'[i].best_streak >= habits[i].best_streak
          /\ habits'[i].best_streak >= habits'[i].current_streak]_vars

(***************************************************************************)
(* Habits of two users (routers/planner.py).  Every handler receives the   *)
(* caller's user_id from get_current_user; the store is reached with the   *)
(* service role key (core/database.py:30-33), so the only isolation is the *)
(* .eq("user_id", user_id) filters the handlers write themselves.          *)
(***************************************************************************)
Users == {"A", "B"}

\* POST /planner/habits by `user_id`: the row is stored with its owner.
create_habit_as(user_id) ==
    LET row == [id |-> Len(habits) + 1, user_id |-> user_id, target_count |-> 1,
                current_streak |-> 0, best_streak |-> 0]
    IN  /\ habits' = Append(habits, row)
        /\ response' = HttpOk("create_habit", row)
        /\ UNCHANGED <<now, activities, interruptions, energy_logs, transactions, tasks,
                       habit_logs, in_flight, goals>>

\* The rows of a table that .eq("user_id", user_id) selects.
RowsOfUser(rows, user_id) ==
    SelectSeq(rows, LAMBDA row : row.user_id = user_id)

\* POST /planner/habits/log by `user_id`.  The upsert is keyed by habit_id
\* and date alone; update_habit_streak selects the caller's completed logs
\* of the habit, and reads and updates the habit by its id alone.
log_habit_as(user_id, habit_id, date, completed) ==
    LET row == [user_id |-> user_id, habit_id |-> habit_id, date |-> date,
                completed |-> completed, count |-> 1]
        stored == UpsertHabitLog(habit_logs, row)
    IN  /\ habit_logs' = stored
        /\ habits' = IF completed
                     THEN update_habit_streak(habits, RowsOfUser(stored, user_id),
                                              habit_id, Today, "none")
                     ELSE habits
        /\ response' = [op |-> "log_habit", status |-> 200, at |-> now,
                        body |-> row, request |-> row, fault |-> "none"]
        /\ UNCHANGED <<now, activities, interruptions, energy_logs, transactions, tasks,
                       in_flight, goals>>

InitIsolation ==
    /\ now = StartDay * MinutesPerDay + 12 * MinutesPerHour
    /\ EmptyStore

\* The habit_id of a request is any id the caller sends: a habit of the
\* caller, a habit of the other user, or the id of no habit.
NextIsolation ==
    \/ \E user_id \in Users :
          /\ Len(habits) < MaxHabits
          /\ create_habit_as(user_id)
    \/ \E user_id \in Users, habit_id \in 1..(MaxHabits + 1), date \in HabitDates,
          completed \in BOOLEAN :
          LET has_row == \E j \in 1..Len(habit_logs) :
                            habit_logs[j].habit_id = habit_id /\ habit_logs[j].date = date
          IN  /\ has_row \/ Len(habit_logs) < MaxHabitLogs
              /\ log_habit_as(user_id, habit_id, date, completed)

SpecIsolation == InitIsolation /\ [][NextIsolation]_vars

\* C27: no log_habit call of a user, with any habit_id, changes current_streak
\* or best_streak of a habit owned by a different user.
C27_LogHabitLeavesOtherUsersStreaks ==
    [][response'.op = "log_habit" =>
          \A i \in 1..Len(habits) :
             habits[i].user_id # response'.request.user_id =>
                /\ habits'[i].current_streak = habits[i].current_streak
                /\ habits'[i].best_streak = habits[i].best_streak]_vars

\* C28: in every record of the time-money correlation, interruption_count is
\* the number of stored interruptions whose calendar date is the record's
\* date, also for a date whose bucket was created by a transaction and not
\* by an activity.
C28_InterruptionCountIsThatOfTheDate ==
    (TimeMoneyAnswered /\ response.status = 200) =>
        \A i \in 1..Len(response.body) :
           response.body[i].interruption_count
              = Cardinality({j \in 1..Len(interruptions) :
                                DateOf(ParseTime(interruptions[j].time)) = response.body[i].date})

(***************************************************************************)
(* The PATCH handlers of tasks, goals and habits (routers/planner.py).     *)
(* Each updates the rows of the given id and the calling user, raises      *)
(* HTTPException(404) inside its try block when the update returned no     *)
(* row, and answers every exception of the try block with 500.             *)
(***************************************************************************)
MaxUpdateRows == 1

\* The status of a PATCH whose update matched a row, or none:
\* HTTPException is an Exception, so `except Exception` catches the 404 and
\* raises HTTPException(500) in its place.
UpdateStatus(matched) == IF matched THEN 200 ELSE 500

\* .update(data).eq("id", id).eq("user_id", user_id): the table after it.
UpdateRows(rows, id, user_id, field, value) ==
    [i \in 1..Len(rows) |->
        IF rows[i].id = id /\ rows[i].user_id = user_id
        THEN [rows[i] EXCEPT ![field] = value]
        ELSE rows[i]]

\* Whether the update returned a row.
RowMatches(rows, id, user_id) ==
    \E i \in 1..Len(rows) : rows[i].id = id /\ rows[i].user_id = user_id

\* What a PATCH answers with; the request is recorded with it.
UpdateResponse(op, rows, id, user_id, field, value) ==
    LET matched == RowMatches(rows, id, user_id)
        status == UpdateStatus(matched)
        updated == UpdateRows(rows, id, user_id, field, value)
    IN  [op |-> op, status |-> status, at |-> now,
         body |-> IF matched THEN updated[CHOOSE i \in 1..Len(rows) : rows[i].id = id] ELSE <<>>,
         request |-> [id |-> id, user_id |-> user_id]]

\* POST /planner/tasks by `user_id`.
create_task_as(user_id) ==
    LET row == [id |-> Len(tasks) + 1, user_id |-> user_id, due_date |-> Null,
                status |-> "pending"]
    IN  /\ tasks' = Append(tasks, row)
        /\ response' = HttpOk("create_task", row)
        /\ UNCHANGED <<now, activities, interruptions, energy_logs, transactions, habits,
                       habit_logs, in_flight, goals>>

\* POST /planner/goals by `user_id`: the status column defaults to active.
create_goal_as(user_id) ==
    LET row == [id |-> Len(goals) + 1, user_id |-> user_id, status |-> "active"]
    IN  /\ goals' = Append(goals, row)
        /\ response' = HttpOk("create_goal", row)
        /\ UNCHANGED <<now, activities, interruptions, energy_logs, transactions, tasks,
                       habits, habit_logs, in_flight>>

\* PATCH /planner/tasks/{task_id} by `user_id`, with a status.
update_task_as(user_id, task_id, status) ==
    /\ tasks' = UpdateRows(tasks, task_id, user_id, "status", status)
    /\ response' = UpdateResponse("update_task", tasks, task_id, user_id, "status", status)
    /\ UNCHANGED <<now, activities, interruptions, energy_logs, transactions, habits,
                   habit_logs, in_flight, goals>>

\* PATCH /planner/goals/{goal_id} by `user_id`, with a status.
update_goal_as(user_id, goal_id, status) ==
    /\ goals' = UpdateRows(goals, goal_id, user_id, "status", status)
    /\ response' = UpdateResponse("update_goal", goals, goal_id, user_id, "status", status)
    /\ UNCHANGED <<now, activities, interruptions, energy_logs, transactions, tasks,
                   habits, habit_logs, in_flight>>

\* PATCH /planner/habits/{habit_id} by `user_id`, with a target_count.
update_habit_as(user_id, habit_id, target_count) ==
    /\ habits' = UpdateRows(habits, habit_id, user_id, "target_count", target_count)
    /\ response' = UpdateResponse("update_habit", habits, habit_id, user_id,
                                  "target_count", target_count)
    /\ UNCHANGED <<now, activities, interruptions, energy_logs, transactions, tasks,
                   habit_logs, in_flight, goals>>

InitUpdate ==
    /\ now = StartDay * MinutesPerDay + 12 * MinutesPerHour
    /\ EmptyStore

\* The id of a PATCH is any id the caller sends: of a row of the caller, of
\* a row of the other user, or of no row.
NextUpdate ==
    \/ \E user_id \in Users :
          /\ Len(tasks) < MaxUpdateRows
          /\ create_task_as(user_id)
    \/ \E user_id \in Users :
          /\ Len(goals) < MaxUpdateRows
          /\ create_goal_as(user_id)
    \/ \E user_id \in Users :
          /\ Len(habits) < MaxUpdateRows
          /\ create_habit_as(user_id)
    \/ \E user_id \in Users, task_id \in 1..(MaxUpdateRows + 1) :
          update_task_as(user_id, task_id, "completed")
    \/ \E user_id \in Users, goal_id \in 1..(MaxUpdateRows + 1) :
          update_goal_as(user_id, goal_id, "paused")
    \/ \E user_id \in Users, habit_id \in 1..(MaxUpdateRows + 1) :
          update_habit_as(user_id, habit_id, 2)

SpecUpdate == InitUpdate /\ [][NextUpdate]_vars

\* The table an update handler writes.
UpdatedTable(op) ==
    IF op = "update_task" THEN tasks
    ELSE IF op = "update_goal" THEN goals
    ELSE habits

\* C29: update_task, update_goal and update_habit answer with status 404
\* when no row matches the given id for the calling user, and leave the
\* store unchanged; the 404 is not turned into another status.
C29_UpdateOfNoRowAnswers404 ==
    [][(/\ response'.op \in {"update_task", "update_goal", "update_habit"}
        /\ ~RowMatches(UpdatedTable(response'.op),
                       response'.request.id, response'.request.user_id))
          => /\ response'.status = 404
             /\ tasks' = tasks
             /\ goals' = goals
             /\ habits' = habits]_vars

\* C30: for every input, the empty one included, the streak result satisfies
\* 0 <= current_streak <= longest_streak <= days_with_activity, where
\* days_with_activity is the number of distinct calendar dates among the
\* activities.
C30_StreaksOrderedAndBoundedByDays ==
    StreaksAnswered =>
        /\ 0 <= AnsweredStreaks.current_streak
        /\ AnsweredStreaks.current_streak <= AnsweredStreaks.longest_streak
        /\ AnsweredStreaks.longest_streak <= AnsweredStreaks.days_with_activity
        /\ AnsweredStreaks.days_with_activity = Cardinality(ActivityDates)

====
